---- MODULE Spec2Model ----
(***************************************************************************)
(* Model of pi-gamepad: the gesture engine of gamepad.go (button state     *)
(* machine, hold timers, trigger routing) and the HID event dispatcher of  *)
(* hid/hid.go with the Linux transport reader.                             *)
(*                                                                         *)
(* Time is discrete; one unit stands for 100 ms, so the default click      *)
(* window of 300 ms is 3 units and the default hold window of 800 ms is 8. *)
(***************************************************************************)
EXTENDS Integers, Sequences, FiniteSets, TLC

VARIABLES
    \* ---- gesture engine (gamepad.go) ----
    now,            \* wall clock, in units of 100 ms
    clickDuration,  \* Gamepad.clickDuration
    holdDuration,   \* Gamepad.holdDuration
    btn,            \* Gamepad.crossBtn .. rjBtn, l2Btn, r2Btn, keyed by Resolved id
    axisCache,      \* Gamepad.axisCache
    timers,         \* every time.Timer created by processButton, with its goroutine
    log,            \* handler invocations, in the order they started
    presses,        \* the presses seen in the input stream, in order of their Down
    downAt,         \* time of the last Down in the input stream, per id
    nEvents,        \* number of events taken by Gamepad.handleEvents so far
    lastEvt,        \* the event taken last, and whether it repeated the button's position
    phys,           \* position last reported by the input stream, per id
    pressNo,        \* number of presses (Up -> Down in the input stream), per id
    invertY,        \* Gamepad.invertY
    dirHandler,     \* Gamepad.dpadHandler / leftJoyHandler / rightJoyHandler # nil
    dirLog,         \* direction handler invocations, in order
    replaced,       \* the timers whose button was replaced before they called the handler
    pend,           \* writes of On<Button>/On<Group> the processing task has not seen yet
    nCalls,         \* number of On<Button>/On<Group> calls made after the events began
    missAt,         \* value of nEvents at the latest mapping miss that is traced (0: none)
    \* ---- event pipeline (hid package) ----
    ctxDone,        \* the context has been canceled
    fileClosed,     \* the clean-up goroutine of Connect has closed the device file
    osClosed,       \* close(osEventsCh) has been executed
    panicked,       \* the process died: a send on the closed osEventsCh, or log.Fatalf
    readLog,        \* the events readDeviceInput has read from the device, in order
    reader,         \* readDeviceInput: where it is and the event it holds
    mapper,         \* mapInitalEvents: where it is
    inj,            \* the goroutine mapInitalEvents starts to forward the first real event
    disp,           \* HID.handleEvents: where it is and the event it holds
    cons,           \* Gamepad.handleEvents: where it is
    buttonChClosed, \* close(buttonCh) has been executed
    axisChClosed,   \* close(axisCh) has been executed
    taken,          \* sequence numbers of the events HID.handleEvents received
    delivered,      \* events received from buttonCh and axisCh, in order
    dropped,        \* sequence numbers of the events dropped on timeout
    \* ---- connection (hid.Connect, NewGamepad) ----
    devices,        \* /dev/input/js0..4 and /sys/class/input/js0..4/device/name
    conn,           \* hid.Connect: where it is and what it returned
    gp,             \* NewGamepad: not returned yet, returned a Gamepad, or an error
    \* ---- polled transport (hid_darwin.go) ----
    padCache,       \* the cache of readDeviceInput: one flag per field
    lastBuf,        \* the report read before buf
    buf,            \* the report read last
    emitted,        \* the events readDeviceInput emitted for buf so far, in order
    nPolls,         \* number of reports read
    pollAt          \* the statement whose emit readDeviceInput is in (0: it is at in.Read)

gVars == <<now, clickDuration, holdDuration, btn, axisCache, timers, log,
           presses, downAt, nEvents, lastEvt, phys, pressNo, invertY, dirHandler,
           dirLog, missAt, replaced, pend, nCalls>>

pVars == <<ctxDone, fileClosed, osClosed, panicked, readLog, reader, mapper, inj,
           disp, cons, buttonChClosed, axisChClosed, taken, delivered, dropped>>

cVars == <<devices, conn, gp>>

sVars == <<padCache, lastBuf, buf, emitted, nPolls, pollAt>>

vars == <<gVars, pVars, cVars, sVars>>

----------------------------------------------------------------------------
\* Bounds of the exploration

MaxTime == 9
MaxEvents == 3
\* events the device produces: NumInit initial-state events, then real ones
MaxRead == 3
NumInit == 1

----------------------------------------------------------------------------
\* Identifiers

Buttons == {"CrossButton", "CircleButton", "SquareButton", "TriangleButton",
            "L1Button", "R1Button", "SelectButton", "StartButton",
            "AnalogButton", "LeftJoyButton", "RightJoyButton"}

Axes == {"DPadXAxis", "DPadYAxis", "LeftJoyXAxis", "LeftJoyYAxis",
         "RightJoyXAxis", "RightJoyYAxis", "L2Axis", "R2Axis"}

Resolved == Buttons \cup Axes

\* the ids that own a *button field of Gamepad (l2Btn and r2Btn are driven by axes)
ButtonSlots == Buttons \cup {"L2Axis", "R2Axis"}

InputTypeButton == 0
InputTypeAxis == 1

UpPosition == "Up"
DownPosition == "Down"

UpEvent == "Up"
DownEvent == "Down"
ClickEvent == "Click"
HoldEvent == "Hold"
ButtonEvents == {UpEvent, DownEvent, ClickEvent, HoldEvent}

MaxValue == 32767

defaultClickDuration == 3
defaultHoldDuration == 8

\* the zero time.Time of an untouched button.downTime: long before the clock starts
ZeroTime == 0 - 1000

DriverMapping ==
    [d \in {"Microsoft X-Box 360 pad", "SHANWAN Android Gamepad", "MacOS"} |->
       CASE d = "Microsoft X-Box 360 pad" ->
              ( <<0, 0>> :> "CrossButton"    @@ <<0, 1>> :> "CircleButton"
             @@ <<0, 2>> :> "SquareButton"   @@ <<0, 3>> :> "TriangleButton"
             @@ <<0, 4>> :> "L1Button"       @@ <<0, 5>> :> "R1Button"
             @@ <<0, 6>> :> "SelectButton"   @@ <<0, 7>> :> "StartButton"
             @@ <<0, 8>> :> "AnalogButton"   @@ <<0, 9>> :> "LeftJoyButton"
             @@ <<0, 10>> :> "RightJoyButton"
             @@ <<1, 6>> :> "DPadXAxis"      @@ <<1, 7>> :> "DPadYAxis"
             @@ <<1, 0>> :> "LeftJoyXAxis"   @@ <<1, 1>> :> "LeftJoyYAxis"
             @@ <<1, 3>> :> "RightJoyXAxis"  @@ <<1, 4>> :> "RightJoyYAxis"
             @@ <<1, 2>> :> "L2Axis"         @@ <<1, 5>> :> "R2Axis" )
         [] d = "SHANWAN Android Gamepad" ->
              ( <<0, 0>> :> "CrossButton"    @@ <<0, 1>> :> "CircleButton"
             @@ <<0, 3>> :> "SquareButton"   @@ <<0, 4>> :> "TriangleButton"
             @@ <<0, 6>> :> "L1Button"       @@ <<0, 7>> :> "R1Button"
             @@ <<0, 10>> :> "SelectButton"  @@ <<0, 11>> :> "StartButton"
             @@ <<0, 12>> :> "AnalogButton"  @@ <<0, 13>> :> "LeftJoyButton"
             @@ <<0, 14>> :> "RightJoyButton"
             @@ <<1, 6>> :> "DPadXAxis"      @@ <<1, 7>> :> "DPadYAxis"
             @@ <<1, 0>> :> "LeftJoyXAxis"   @@ <<1, 1>> :> "LeftJoyYAxis"
             @@ <<1, 2>> :> "RightJoyXAxis"  @@ <<1, 3>> :> "RightJoyYAxis"
             @@ <<1, 5>> :> "L2Axis"         @@ <<1, 4>> :> "R2Axis" )
         [] d = "MacOS" ->
              ( <<0, 7>> :> "CrossButton"    @@ <<0, 8>> :> "CircleButton"
             @@ <<0, 9>> :> "SquareButton"   @@ <<0, 10>> :> "TriangleButton"
             @@ <<0, 11>> :> "L1Button"      @@ <<0, 12>> :> "R1Button"
             @@ <<0, 2>> :> "SelectButton"   @@ <<0, 1>> :> "StartButton"
             @@ <<0, 13>> :> "AnalogButton"  @@ <<0, 3>> :> "LeftJoyButton"
             @@ <<0, 4>> :> "RightJoyButton"
             @@ <<1, 5>> :> "DPadXAxis"      @@ <<1, 6>> :> "DPadYAxis"
             @@ <<1, 16>> :> "LeftJoyXAxis"  @@ <<1, 17>> :> "LeftJoyYAxis"
             @@ <<1, 18>> :> "RightJoyXAxis" @@ <<1, 19>> :> "RightJoyYAxis"
             @@ <<1, 14>> :> "L2Axis"        @@ <<1, 15>> :> "R2Axis" )]

\* DriverMapping of package gamepad, the table NewGamepad reads: the two Linux
\* drivers
gamepadDriverMapping ==
    [d \in {"Microsoft X-Box 360 pad", "SHANWAN Android Gamepad"} |->
       CASE d = "Microsoft X-Box 360 pad" ->
              ( <<0, 0>> :> "CrossButton"    @@ <<0, 1>> :> "CircleButton"
             @@ <<0, 2>> :> "SquareButton"   @@ <<0, 3>> :> "TriangleButton"
             @@ <<0, 4>> :> "L1Button"       @@ <<0, 5>> :> "R1Button"
             @@ <<0, 6>> :> "SelectButton"   @@ <<0, 7>> :> "StartButton"
             @@ <<0, 8>> :> "AnalogButton"   @@ <<0, 9>> :> "LeftJoyButton"
             @@ <<0, 10>> :> "RightJoyButton"
             @@ <<1, 6>> :> "DPadXAxis"      @@ <<1, 7>> :> "DPadYAxis"
             @@ <<1, 0>> :> "LeftJoyXAxis"   @@ <<1, 1>> :> "LeftJoyYAxis"
             @@ <<1, 3>> :> "RightJoyXAxis"  @@ <<1, 4>> :> "RightJoyYAxis"
             @@ <<1, 2>> :> "L2Axis"         @@ <<1, 5>> :> "R2Axis" )
         [] d = "SHANWAN Android Gamepad" ->
              ( <<0, 0>> :> "CrossButton"    @@ <<0, 1>> :> "CircleButton"
             @@ <<0, 3>> :> "SquareButton"   @@ <<0, 4>> :> "TriangleButton"
             @@ <<0, 6>> :> "L1Button"       @@ <<0, 7>> :> "R1Button"
             @@ <<0, 10>> :> "SelectButton"  @@ <<0, 11>> :> "StartButton"
             @@ <<0, 12>> :> "AnalogButton"  @@ <<0, 13>> :> "LeftJoyButton"
             @@ <<0, 14>> :> "RightJoyButton"
             @@ <<1, 6>> :> "DPadXAxis"      @@ <<1, 7>> :> "DPadYAxis"
             @@ <<1, 0>> :> "LeftJoyXAxis"   @@ <<1, 1>> :> "LeftJoyYAxis"
             @@ <<1, 2>> :> "RightJoyXAxis"  @@ <<1, 3>> :> "RightJoyYAxis"
             @@ <<1, 5>> :> "L2Axis"         @@ <<1, 4>> :> "R2Axis" )]

\* a nil InputMapping: every lookup in it fails
NilMapping == <<>>

\* inputMapping: DriverMapping[device.Driver] in NewGamepad; a driver the
\* table of package gamepad has no entry for gives the nil map
MappingOf(driver) ==
    IF driver \in DOMAIN gamepadDriverMapping THEN gamepadDriverMapping[driver]
    ELSE NilMapping

\* the X-Box table with raw button 0 resolving to Circle, as raw button 1 does
inputMapping_Collide ==
    [MappingOf("Microsoft X-Box 360 pad") EXCEPT ![<<0, 0>>] = "CircleButton"]

\* Gamepad.inputMapping of the Linux device the exploration connects to
inputMapping == MappingOf("Microsoft X-Box 360 pad")

\* Gamepad.inputMapping when the device is the polled one, whose Connect sets
\* d.Driver = "MacOS"
polledInputMapping == MappingOf("MacOS")

----------------------------------------------------------------------------
\* Button subscriptions

\* g.xBtn == nil: no On<Button> call was made
NoButton ==
    [sub |-> FALSE, eventsNil |-> TRUE, events |-> {},
     lastPosition |-> UpPosition, downTime |-> ZeroTime, holdTimer |-> 0]

\* &button{handler: h, events: events}; evNil is true when no event was listed
NewButton(evNil, evs) ==
    [sub |-> TRUE, eventsNil |-> evNil, events |-> evs,
     lastPosition |-> UpPosition, downTime |-> ZeroTime, holdTimer |-> 0]

\* includes that finds every kind in every list
includes_Always(b, event) == TRUE

\* includes(btn.events, event): a nil list holds every kind
includes(b, event) ==
    IF b.eventsNil THEN TRUE ELSE event \in b.events

----------------------------------------------------------------------------
\* Hold timers.  A timer record is one time.Timer made by time.AfterFunc:
\*   armed   - waiting for its deadline
\*   stopped - Stop() removed it before it fired
\*   fired   - the runtime started the goroutine that will call the handler
\*   running - that goroutine is inside btn.handler(HoldEvent)
\*   done    - the goroutine returned
\* The deadline is kept only while the timer is armed.

\* Stop() that stops nothing
StopTimer_Noop(ts, tid) == ts

\* t.Stop(): only a timer that has not fired yet is prevented from firing
StopTimer(ts, tid) ==
    {IF x.tid = tid /\ x.status = "armed"
       THEN [x EXCEPT !.status = "stopped", !.deadline = 0] ELSE x
       : x \in ts}

TimerStatus(ts, tid) ==
    IF tid = 0 THEN "none" ELSE (CHOOSE x \in ts : x.tid = tid).status

\* time.AfterFunc(g.holdDuration, func() { btn.handler(HoldEvent) })
AfterFunc(ts, id, p, t, d) ==
    ts \cup {[tid |-> Cardinality(ts) + 1, id |-> id, press |-> p,
              deadline |-> t + d, status |-> "armed"]}

\* a hold goroutine of this button is inside the handler right now
HandlerBusy(ts, id) == \E x \in ts : x.id = id /\ x.status = "running"

\* one handler invocation made by the processing task
Invoke(st, id, ev, p) ==
    Append(st.log, [id |-> id, ev |-> ev, press |-> p, ctx |-> "proc",
                    conc |-> HandlerBusy(st.timers, id)])

\* the state processButton works on
EngineState == [btn |-> btn, timers |-> timers, log |-> log]

\* processButton, case DownPosition
pressDown(st, id, p, t, hold) ==
    LET b == st.btn[id]
        log1 == IF includes(b, DownEvent) THEN Invoke(st, id, DownEvent, p) ELSE st.log
        arm == includes(b, HoldEvent)
        ts1 == IF arm THEN AfterFunc(StopTimer(st.timers, b.holdTimer), id, p, t, hold)
               ELSE st.timers
        b1 == [b EXCEPT !.downTime = t,
                        !.holdTimer = IF arm THEN Cardinality(st.timers) + 1 ELSE @,
                        !.lastPosition = DownPosition]
    IN [btn |-> [st.btn EXCEPT ![id] = b1], timers |-> ts1, log |-> log1]

\* the Up case with the click test ahead of the Up notification
pressUp_ClickFirst(st, id, p, t, click) ==
    LET b == st.btn[id]
        st1 == [st EXCEPT !.timers = StopTimer(st.timers, b.holdTimer)]
        st2 == [st1 EXCEPT !.log = IF includes(b, ClickEvent) /\ t - b.downTime < click
                                   THEN Invoke(st1, id, ClickEvent, p) ELSE @]
        st3 == [st2 EXCEPT !.log = IF includes(b, UpEvent)
                                   THEN Invoke(st2, id, UpEvent, p) ELSE @]
    IN [st3 EXCEPT !.btn[id].lastPosition = UpPosition]

\* processButton, case UpPosition
\* the Up case without btn.lastPosition = pos at the end
pressUp_KeepPosition(st, id, p, t, click) ==
    LET b == st.btn[id]
        st1 == [st EXCEPT !.timers = StopTimer(st.timers, b.holdTimer)]
        st2 == [st1 EXCEPT !.log = IF includes(b, UpEvent)
                                   THEN Invoke(st1, id, UpEvent, p) ELSE @]
    IN [st2 EXCEPT !.log = IF includes(b, ClickEvent) /\ t - b.downTime < click
                           THEN Invoke(st2, id, ClickEvent, p) ELSE @]

\* the Up case without btn.holdTimer.Stop()
pressUp_NoStop(st, id, p, t, click) ==
    LET b == st.btn[id]
        st2 == [st EXCEPT !.log = IF includes(b, UpEvent)
                                  THEN Invoke(st, id, UpEvent, p) ELSE @]
        st3 == [st2 EXCEPT !.log = IF includes(b, ClickEvent) /\ t - b.downTime < click
                                   THEN Invoke(st2, id, ClickEvent, p) ELSE @]
    IN [st3 EXCEPT !.btn[id].lastPosition = UpPosition]

pressUp(st, id, p, t, click) ==
    LET b == st.btn[id]
        st1 == [st EXCEPT !.timers = StopTimer(st.timers, b.holdTimer)]
        st2 == [st1 EXCEPT !.log = IF includes(b, UpEvent)
                                   THEN Invoke(st1, id, UpEvent, p) ELSE @]
        st3 == [st2 EXCEPT !.log = IF includes(b, ClickEvent) /\ t - b.downTime < click
                                   THEN Invoke(st2, id, ClickEvent, p) ELSE @]
    IN [st3 EXCEPT !.btn[id].lastPosition = UpPosition]

\* the switch of handleEvents passing g.crossBtn in every case
processButton_AlwaysCross(st, id, pos, p, t, click, hold) ==
    IF ~st.btn["CrossButton"].sub THEN st
    ELSE IF st.btn["CrossButton"].lastPosition = pos THEN st
    ELSE IF pos = DownPosition THEN pressDown(st, "CrossButton", p, t, hold)
    ELSE pressUp(st, "CrossButton", p, t, click)

\* processButton without the duplicate test
processButton_NoDebounce(st, id, pos, p, t, click, hold) ==
    IF ~st.btn[id].sub THEN st
    ELSE IF pos = DownPosition THEN pressDown(st, id, p, t, hold)
    ELSE pressUp(st, id, p, t, click)

\* processButton(btn, pos) at time t, for press number p of button id;
\* click and hold are g.clickDuration and g.holdDuration
processButton(st, id, pos, p, t, click, hold) ==
    IF ~st.btn[id].sub THEN st
    ELSE IF st.btn[id].lastPosition = pos THEN st
    ELSE IF pos = DownPosition THEN pressDown(st, id, p, t, hold)
    ELSE pressUp(st, id, p, t, click)

\* the test with < in place of <=
Position_Strict(value) == IF value < 0 THEN UpPosition ELSE DownPosition

\* event.Value <= 0 is Up, anything else Down
Position(value) == IF value <= 0 THEN UpPosition ELSE DownPosition

\* the event resolves in mp to a subscribed button that is already in the
\* event's position
RepeatsIn(mp, key, value) ==
    /\ key \in DOMAIN mp
    /\ mp[key] \in ButtonSlots
    /\ btn[mp[key]].sub
    /\ btn[mp[key]].lastPosition = Position(value)

Repeats(key, value) == RepeatsIn(inputMapping, key, value)

\* the press an event of position pos on id belongs to
PressOf(id, pos) ==
    IF pos = DownPosition /\ phys[id] = UpPosition THEN pressNo[id] + 1 ELSE pressNo[id]

\* the index in presses of the current press of id
PressIndex(id) ==
    CHOOSE k \in 1..Len(presses) : presses[k].id = id /\ presses[k].press = pressNo[id]

\* Book-keeping of the input stream: a Down after an Up opens a press, an Up
\* after a Down releases it.  A released press records how long it lasted
\* (quick: shorter than the click window, held: at least the hold window), what
\* the button's hold timer was doing and how many handler invocations had
\* started when the Up was taken.
Observe(id, pos) ==
    /\ phys' = [phys EXCEPT ![id] = pos]
    /\ pressNo' = [pressNo EXCEPT ![id] = PressOf(id, pos)]
    /\ downAt' = IF pos = DownPosition /\ phys[id] = UpPosition
                 THEN [downAt EXCEPT ![id] = now] ELSE downAt
    /\ presses' =
         IF pos = DownPosition /\ phys[id] = UpPosition
         THEN Append(presses, [id |-> id, press |-> pressNo[id] + 1, released |-> FALSE,
                               quick |-> FALSE, held |-> FALSE, timerWas |-> "none",
                               upLogLen |-> 0])
         ELSE IF pos = UpPosition /\ phys[id] = DownPosition
         THEN [presses EXCEPT ![PressIndex(id)] =
                 [@ EXCEPT !.released = TRUE,
                           !.quick = now - downAt[id] < clickDuration,
                           !.held = now - downAt[id] >= holdDuration,
                           !.timerWas = TimerStatus(timers, btn[id].holdTimer),
                           !.upLogLen = Len(log)]]
         ELSE presses

SetEngine(st) ==
    /\ btn' = st.btn
    /\ timers' = st.timers
    /\ log' = st.log

\* the group an axis belongs to
GroupOf(resolved) ==
    CASE resolved \in {"DPadXAxis", "DPadYAxis"} -> "DPad"
      [] resolved \in {"LeftJoyXAxis", "LeftJoyYAxis"} -> "LeftJoy"
      [] resolved \in {"RightJoyXAxis", "RightJoyYAxis"} -> "RightJoy"
      [] OTHER -> "none"

GroupX(g) == CASE g = "DPad" -> "DPadXAxis" [] g = "LeftJoy" -> "LeftJoyXAxis"
               [] OTHER -> "RightJoyXAxis"
GroupY(g) == CASE g = "DPad" -> "DPadYAxis" [] g = "LeftJoy" -> "LeftJoyYAxis"
               [] OTHER -> "RightJoyYAxis"

\* emitDirection with the two axes exchanged
emitDirection_Swapped(dl, cache, registered, inv, g) ==
    IF ~registered THEN dl
    ELSE LET x == cache[GroupY(g)]
             y == cache[GroupX(g)]
             y1 == IF inv THEN y * (0 - 1) ELSE y
         IN Append(dl, [group |-> g, x |-> x, y |-> y1])

\* emitDirection that never negates y
emitDirection_NoInvert(dl, cache, registered, inv, g) ==
    IF ~registered THEN dl
    ELSE Append(dl, [group |-> g, x |-> cache[GroupX(g)], y |-> cache[GroupY(g)]])

\* emitDirection: the handler gets x/MaxValue and y/MaxValue; the entry keeps
\* the two numerators
emitDirection(dl, cache, registered, inv, g) ==
    IF ~registered THEN dl
    ELSE LET x == cache[GroupX(g)]
             y == cache[GroupY(g)]
             y1 == IF inv THEN y * (0 - 1) ELSE y
         IN Append(dl, [group |-> g, x |-> x, y |-> y1])

----------------------------------------------------------------------------
\* Gamepad.handleEvents, one iteration per action

\* The body of case event := <-g.device.OnButton() for a Gamepad whose
\* inputMapping is mp.  missAt is set by the specification that takes the
\* step: it traces the misses, or leaves missAt alone.
ButtonCase(mp, index, value) ==
    /\ nEvents < MaxEvents
    /\ nEvents' = nEvents + 1
    /\ lastEvt' = [kind |-> "button", index |-> index, value |-> value,
                   dup |-> RepeatsIn(mp, <<InputTypeButton, index>>, value)]
    /\ UNCHANGED <<replaced, pend, nCalls, now, clickDuration, holdDuration, axisCache,
                   invertY, dirHandler, dirLog>>
    /\ LET pos == Position(value)
           key == <<InputTypeButton, index>>
       IN IF key \notin DOMAIN mp
          THEN UNCHANGED <<btn, timers, log, presses, downAt, phys, pressNo>>
          ELSE LET resolved == mp[key] IN
               IF resolved \in Buttons
               THEN /\ Observe(resolved, pos)
                    /\ SetEngine(processButton(EngineState, resolved, pos,
                                               PressOf(resolved, pos), now,
                                               clickDuration, holdDuration))
               ELSE UNCHANGED <<btn, timers, log, presses, downAt, phys, pressNo>>

\* the button case without the continue after a failed lookup: resolved is left
\* at the zero value of Resolved, which is CrossButton
HandleButton_NoContinue(index, value) ==
    /\ UNCHANGED <<pVars, cVars, sVars>>
    /\ nEvents < MaxEvents
    /\ nEvents' = nEvents + 1
    /\ lastEvt' = [kind |-> "button", index |-> index, value |-> value,
                   dup |-> Repeats(<<InputTypeButton, index>>, value)]
    /\ UNCHANGED <<replaced, pend, nCalls, now, clickDuration, holdDuration, axisCache, invertY, dirHandler, dirLog>>
    /\ LET pos == Position(value)
           key == <<InputTypeButton, index>>
       IN LET resolved == IF key \in DOMAIN inputMapping THEN inputMapping[key]
                          ELSE "CrossButton" IN
               IF resolved \in Buttons
               THEN /\ Observe(resolved, pos)
                    /\ SetEngine(processButton(EngineState, resolved, pos,
                                               PressOf(resolved, pos), now,
                                               clickDuration, holdDuration))
               ELSE UNCHANGED <<btn, timers, log, presses, downAt, phys, pressNo>>

\* case event := <-g.device.OnButton(), the event handed over directly
HandleButton(index, value) ==
    /\ UNCHANGED <<pVars, cVars, sVars>>
    /\ ButtonCase(inputMapping, index, value)

\* the axis case with the cache written only when the group has a handler
HandleAxis_NoCacheOnNil(index, value) ==
    /\ UNCHANGED <<pVars, cVars, sVars>>
    /\ nEvents < MaxEvents
    /\ nEvents' = nEvents + 1
    /\ lastEvt' = [kind |-> "axis", index |-> index, value |-> value,
                   dup |-> Repeats(<<InputTypeAxis, index>>, value)]
    /\ UNCHANGED <<replaced, pend, nCalls, now, clickDuration, holdDuration, invertY, dirHandler>>
    /\ LET key == <<InputTypeAxis, index>>
       IN IF key \notin DOMAIN inputMapping
          THEN UNCHANGED <<btn, timers, log, presses, downAt, phys, pressNo,
                           axisCache, dirLog>>
          ELSE LET resolved == inputMapping[key]
                   g == GroupOf(resolved)
                   cache1 == IF g # "none" /\ ~dirHandler[g] THEN axisCache
                             ELSE [axisCache EXCEPT ![resolved] = value]
                   pos == Position(value)
               IN /\ axisCache' = cache1
                  /\ IF g # "none"
                     THEN /\ dirLog' = emitDirection(dirLog, cache1, dirHandler[g], invertY, g)
                          /\ UNCHANGED <<btn, timers, log, presses, downAt, phys, pressNo>>
                     ELSE IF resolved \in {"L2Axis", "R2Axis"}
                     THEN /\ Observe(resolved, pos)
                          /\ SetEngine(processButton(EngineState, resolved, pos,
                                                     PressOf(resolved, pos), now,
                                                     clickDuration, holdDuration))
                          /\ UNCHANGED dirLog
                     ELSE UNCHANGED <<btn, timers, log, presses, downAt, phys,
                                      pressNo, dirLog>>

\* case event := <-g.device.OnAxis()
HandleAxis(index, value) ==
    /\ UNCHANGED <<pVars, cVars, sVars>>
    /\ nEvents < MaxEvents
    /\ nEvents' = nEvents + 1
    /\ lastEvt' = [kind |-> "axis", index |-> index, value |-> value,
                   dup |-> Repeats(<<InputTypeAxis, index>>, value)]
    /\ UNCHANGED <<replaced, pend, nCalls, now, clickDuration, holdDuration, invertY, dirHandler>>
    /\ LET key == <<InputTypeAxis, index>>
       IN IF key \notin DOMAIN inputMapping
          THEN UNCHANGED <<btn, timers, log, presses, downAt, phys, pressNo,
                           axisCache, dirLog>>
          ELSE LET resolved == inputMapping[key]
                   cache1 == [axisCache EXCEPT ![resolved] = value]
                   g == GroupOf(resolved)
                   pos == Position(value)
               IN /\ axisCache' = cache1
                  /\ IF g # "none"
                     THEN /\ dirLog' = emitDirection(dirLog, cache1, dirHandler[g], invertY, g)
                          /\ UNCHANGED <<btn, timers, log, presses, downAt, phys, pressNo>>
                     ELSE IF resolved \in {"L2Axis", "R2Axis"}
                     THEN /\ Observe(resolved, pos)
                          /\ SetEngine(processButton(EngineState, resolved, pos,
                                                     PressOf(resolved, pos), now,
                                                     clickDuration, holdDuration))
                          /\ UNCHANGED dirLog
                     ELSE UNCHANGED <<btn, timers, log, presses, downAt, phys,
                                      pressNo, dirLog>>

\* the runtime fires a timer whose deadline has come: it starts the goroutine
TimerFire(tid) ==
    /\ UNCHANGED <<pVars, cVars, sVars>>
    /\ \E x \in timers : /\ x.tid = tid
                         /\ x.status = "armed"
                         /\ now >= x.deadline
                         /\ timers' = (timers \ {x})
                                          \cup {[x EXCEPT !.status = "fired", !.deadline = 0]}
    /\ UNCHANGED <<replaced, pend, nCalls, now, clickDuration, holdDuration, btn, axisCache, log, presses, downAt,
                   nEvents, lastEvt, phys, pressNo, invertY, dirHandler, dirLog, missAt>>

\* the timer goroutine calls btn.handler(HoldEvent)
HoldBegin(tid) ==
    /\ UNCHANGED <<pVars, cVars, sVars>>
    /\ \E x \in timers : /\ x.tid = tid
                         /\ x.status = "fired"
                         /\ timers' = (timers \ {x}) \cup {[x EXCEPT !.status = "running"]}
                         /\ log' = Append(log, [id |-> x.id, ev |-> HoldEvent,
                                                press |-> x.press, ctx |-> "timer",
                                                conc |-> HandlerBusy(timers, x.id)])
    /\ UNCHANGED <<replaced, pend, nCalls, now, clickDuration, holdDuration, btn, axisCache, presses, downAt,
                   nEvents, lastEvt, phys, pressNo, invertY, dirHandler, dirLog, missAt>>

\* btn.handler(HoldEvent) returns and the goroutine ends
HoldEnd(tid) ==
    /\ UNCHANGED <<pVars, cVars, sVars>>
    /\ \E x \in timers : /\ x.tid = tid
                         /\ x.status = "running"
                         /\ timers' = (timers \ {x}) \cup {[x EXCEPT !.status = "done"]}
    /\ UNCHANGED <<replaced, pend, nCalls, now, clickDuration, holdDuration, btn, axisCache, log, presses, downAt,
                   nEvents, lastEvt, phys, pressNo, invertY, dirHandler, dirLog, missAt>>

\* time passes
Tick ==
    /\ UNCHANGED <<pVars, cVars, sVars>>
    /\ now < MaxTime
    /\ now' = now + 1
    /\ UNCHANGED <<replaced, pend, nCalls, clickDuration, holdDuration, btn, axisCache, timers, log,
                   presses, downAt, nEvents, lastEvt, phys, pressNo, invertY, dirHandler,
                   dirLog, missAt>>

----------------------------------------------------------------------------
\* Inputs of the exploration

\* raw button indices: Cross, and 11, which the mapping does not know
ButtonIndices == {0, 11}
ButtonValues == {0, 1}
\* raw axis index of L2
AxisIndices == {2}
AxisValues == {0, MaxValue}

\* the (ClickDuration, HoldDuration) pairs explored: the defaults, and a hold
\* window shorter than the click window
DurationOptions == {<<defaultClickDuration, defaultHoldDuration>>, <<4, 2>>}

\* the subscriptions explored for a button
SubChoices ==
    {NoButton, NewButton(TRUE, {})}
      \cup {NewButton(FALSE, evs) : evs \in {{}, {UpEvent, DownEvent}, {HoldEvent},
                                              {ClickEvent, HoldEvent}}}

\* no write is waiting to be seen
NoPend == [btn |-> {}, dir |-> {}]

\* NewGamepad followed by the On<Button> calls
GInit ==
    /\ now = 0
    /\ \E d \in DurationOptions : clickDuration = d[1] /\ holdDuration = d[2]
    /\ \E c \in SubChoices :
          btn = [id \in ButtonSlots |->
                   IF id = "CrossButton" THEN c
                   ELSE IF id = "L2Axis"
                        THEN NewButton(FALSE, {UpEvent, DownEvent, ClickEvent})
                   ELSE NoButton]
    /\ axisCache = [a \in Axes |-> 0]
    /\ timers = {}
    /\ log = <<>>
    /\ presses = <<>>
    /\ downAt = [id \in ButtonSlots |-> 0]
    /\ nEvents = 0
    /\ lastEvt = [kind |-> "none", index |-> 0, value |-> 0, dup |-> FALSE]
    /\ phys = [id \in ButtonSlots |-> UpPosition]
    /\ pressNo = [id \in ButtonSlots |-> 0]
    /\ invertY = FALSE
    /\ dirHandler = [g \in {"DPad", "LeftJoy", "RightJoy"} |-> g = "DPad"]
    /\ dirLog = <<>>
    /\ missAt = 0
    /\ replaced = {}
    /\ pend = NoPend
    /\ nCalls = 0

GNext ==
    \/ \E i \in ButtonIndices, v \in ButtonValues : HandleButton(i, v) /\ UNCHANGED missAt
    \/ \E i \in AxisIndices, v \in AxisValues : HandleAxis(i, v) /\ UNCHANGED missAt
    \/ \E x \in timers : TimerFire(x.tid)
    \/ \E x \in timers : HoldBegin(x.tid)
    \/ \E x \in timers : HoldEnd(x.tid)
    \/ Tick

\* On<Button> and On<Group> calls explored
MaxCalls == 1

\* the timers of id that have not called the handler yet
Outstanding(id) ==
    {x.tid : x \in {y \in timers : y.id = id /\ y.status \in {"armed", "fired"}}}

\* g.<x>Btn = &button{handler: h, events: events}, the body every On<Button>
\* function has.  The caller's goroutine writes the field that
\* Gamepad.handleEvents reads with no synchronisation between the two: the
\* written button waits in pend until the processing task sees it, and a
\* second write to the same field takes the place of a waiting one.
Subscribe(id, evNil, evs) ==
    /\ nCalls < MaxCalls
    /\ nCalls' = nCalls + 1
    /\ pend' = [pend EXCEPT !.btn = {w \in @ : w.id # id}
                                       \cup {[id |-> id, b |-> NewButton(evNil, evs)]}]
    /\ replaced' = replaced \cup Outstanding(id)
    /\ UNCHANGED <<now, clickDuration, holdDuration, btn, axisCache, timers, log, presses,
                   downAt, nEvents, lastEvt, phys, pressNo, invertY, dirHandler, dirLog,
                   missAt>>
    /\ UNCHANGED <<pVars, cVars, sVars>>

OnL1(evNil, evs) == Subscribe("L1Button", evNil, evs)
OnR1(evNil, evs) == Subscribe("R1Button", evNil, evs)
OnL2(evNil, evs) == Subscribe("L2Axis", evNil, evs)
OnR2(evNil, evs) == Subscribe("R2Axis", evNil, evs)
OnSelect(evNil, evs) == Subscribe("SelectButton", evNil, evs)
OnStart(evNil, evs) == Subscribe("StartButton", evNil, evs)
OnAnalog(evNil, evs) == Subscribe("AnalogButton", evNil, evs)
OnLJ(evNil, evs) == Subscribe("LeftJoyButton", evNil, evs)
OnRJ(evNil, evs) == Subscribe("RightJoyButton", evNil, evs)
OnCross(evNil, evs) == Subscribe("CrossButton", evNil, evs)
OnCircle(evNil, evs) == Subscribe("CircleButton", evNil, evs)
OnSquare(evNil, evs) == Subscribe("SquareButton", evNil, evs)
OnTriangle(evNil, evs) == Subscribe("TriangleButton", evNil, evs)

\* the processing task's read of g.<x>Btn begins to return the button written
\* last; the timers made for the button it read before keep their closure
SeeButton(id) ==
    /\ \E w \in pend.btn : w.id = id /\ btn' = [btn EXCEPT ![id] = w.b]
    /\ pend' = [pend EXCEPT !.btn = {w \in @ : w.id # id}]
    /\ replaced' = replaced \cup Outstanding(id)
    /\ UNCHANGED <<nCalls, now, clickDuration, holdDuration, axisCache, timers, log, presses,
                   downAt, nEvents, lastEvt, phys, pressNo, invertY, dirHandler, dirLog,
                   missAt>>
    /\ UNCHANGED <<pVars, cVars, sVars>>

\* g.<group>Handler = h, the body of OnDPad, OnLeftJoystick and
\* OnRightJoystick; h is FALSE for a nil handler.  The write is as
\* unsynchronised as that of a button.
SetHandler(g, h) ==
    /\ nCalls < MaxCalls
    /\ nCalls' = nCalls + 1
    /\ pend' = [pend EXCEPT !.dir = {w \in @ : w.g # g} \cup {[g |-> g, h |-> h]}]
    /\ UNCHANGED <<replaced, now, clickDuration, holdDuration, btn, axisCache, timers, log,
                   presses, downAt, nEvents, lastEvt, phys, pressNo, invertY, dirHandler,
                   dirLog, missAt>>
    /\ UNCHANGED <<pVars, cVars, sVars>>

OnDPad(h) == SetHandler("DPad", h)
OnLeftJoystick(h) == SetHandler("LeftJoy", h)
OnRightJoystick(h) == SetHandler("RightJoy", h)

\* the processing task's read of g.<group>Handler begins to return the
\* handler written last
SeeHandler(g) ==
    /\ \E w \in pend.dir : w.g = g /\ dirHandler' = [dirHandler EXCEPT ![g] = w.h]
    /\ pend' = [pend EXCEPT !.dir = {w \in @ : w.g # g}]
    /\ UNCHANGED <<replaced, nCalls, now, clickDuration, holdDuration, btn, axisCache, timers, log,
                   presses, downAt, nEvents, lastEvt, phys, pressNo, invertY, dirLog, missAt>>
    /\ UNCHANGED <<pVars, cVars, sVars>>

\* events taken in the exploration of the axes
MaxAxisEvents == 2

\* the int16 values explored: both ends of the range, the largest regular
\* value, half scale with both signs, and rest
Int16Values == {0 - 32768, 0 - 16384, 0, 16384, MaxValue}

\* raw axis inputs: DPadX (6) and DPadY (7) with every value, the triggers L2
\* (2) and R2 (5), the sticks LeftJoyX (0) and RightJoyY (4), and index 8,
\* which the mapping does not know
AxisInputs ==
    ({6, 7} \X Int16Values)
      \cup ({2} \X {0 - 16384, 0, MaxValue})
      \cup {<<5, MaxValue>>, <<0, MaxValue>>, <<4, 16384>>, <<8, MaxValue>>}

\* raw button inputs: Cross (0), Circle (1), and 11, which the mapping does not know
ButtonInputs == ({0} \X {0, 1}) \cup {<<1, 1>>, <<11, 1>>}

\* the value of missAt after an event with this key
TraceMiss(key) == IF key \in DOMAIN inputMapping THEN missAt ELSE nEvents + 1

\* NewGamepad, with or without WithInvertedY, then OnCross and OnL2 for Up and
\* Down; no direction handler yet
AInit ==
    /\ now = 0
    /\ clickDuration = defaultClickDuration
    /\ holdDuration = defaultHoldDuration
    /\ btn = [id \in ButtonSlots |->
                IF id \in {"CrossButton", "L2Axis"}
                THEN NewButton(FALSE, {UpEvent, DownEvent})
                ELSE NoButton]
    /\ axisCache = [a \in Axes |-> 0]
    /\ timers = {}
    /\ log = <<>>
    /\ presses = <<>>
    /\ downAt = [id \in ButtonSlots |-> 0]
    /\ nEvents = 0
    /\ lastEvt = [kind |-> "none", index |-> 0, value |-> 0, dup |-> FALSE]
    /\ phys = [id \in ButtonSlots |-> UpPosition]
    /\ pressNo = [id \in ButtonSlots |-> 0]
    /\ invertY \in BOOLEAN
    /\ dirHandler = [g \in {"DPad", "LeftJoy", "RightJoy"} |-> FALSE]
    /\ dirLog = <<>>
    /\ missAt = 0
    /\ replaced = {}
    /\ pend = NoPend
    /\ nCalls = 0

ANext ==
    \/ \E in \in ButtonInputs :
          /\ nEvents < MaxAxisEvents
          /\ HandleButton(in[1], in[2])
          /\ missAt' = TraceMiss(<<InputTypeButton, in[1]>>)
    \/ \E in \in AxisInputs :
          /\ nEvents < MaxAxisEvents
          /\ HandleAxis(in[1], in[2])
          /\ missAt' = TraceMiss(<<InputTypeAxis, in[1]>>)
    \/ \E h \in BOOLEAN : OnDPad(h)
    \/ \E h \in BOOLEAN : OnLeftJoystick(h)
    \/ \E h \in BOOLEAN : OnRightJoystick(h)
    \/ \E g \in {"DPad", "LeftJoy", "RightJoy"} : SeeHandler(g)

----------------------------------------------------------------------------
\* The event pipeline: readDeviceInput -> osEventsCh -> HID.handleEvents ->
\* buttonCh / axisCh -> Gamepad.handleEvents.  All three channels are
\* unbuffered, so a send and its receive are one step.

buttonEventType == 1
axisEventType == 2
\* type of the initial-state events the kernel sends first (0x81)
initEventType == 129

NoEvent == [seq |-> 0, Type |-> 0, Index |-> 0, Value |-> 0]

\* the switch with its two cases exchanged
Classify_Swapped(evt) ==
    IF evt.Type = buttonEventType THEN "sendAxis"
    ELSE IF evt.Type = axisEventType THEN "sendButton"
    ELSE "select"

\* the switch with a default case that sends the event as a button event
Classify_DefaultButton(evt) ==
    IF evt.Type = axisEventType THEN "sendAxis" ELSE "sendButton"

\* the switch of HID.handleEvents: where the dispatcher goes with an event
Classify(evt) ==
    IF evt.Type = buttonEventType THEN "sendButton"
    ELSE IF evt.Type = axisEventType THEN "sendAxis"
    ELSE "select"

\* the typed event built from an ingress event
Typed(pc, evt) ==
    [ch |-> IF pc = "sendButton" THEN "button" ELSE "axis",
     seq |-> evt.seq, Index |-> evt.Index, Value |-> evt.Value]

\* newHID, Connect up to the start of its goroutines
PInit ==
    /\ ctxDone = FALSE
    /\ fileClosed = FALSE
    /\ osClosed = FALSE
    /\ panicked = FALSE
    /\ readLog = <<>>
    /\ reader = [pc |-> "read", evt |-> NoEvent]
    /\ mapper = "recv"
    /\ inj = [pc |-> "none", evt |-> NoEvent]
    /\ disp = [pc |-> "select", evt |-> NoEvent]
    /\ cons = "notStarted"
    /\ buttonChClosed = FALSE
    /\ axisChClosed = FALSE
    /\ taken = {}
    /\ delivered = <<>>
    /\ dropped = {}

\* newHID and the macOS Connect, which starts readDeviceInput and reads no
\* initial events, then NewGamepad up to go g.handleEvents()
PInitPolled ==
    /\ ctxDone = FALSE
    /\ fileClosed = FALSE
    /\ osClosed = FALSE
    /\ panicked = FALSE
    /\ readLog = <<>>
    /\ reader = [pc |-> "read", evt |-> NoEvent]
    /\ mapper = "done"
    /\ inj = [pc |-> "none", evt |-> NoEvent]
    /\ disp = [pc |-> "select", evt |-> NoEvent]
    /\ cons = "select"
    /\ buttonChClosed = FALSE
    /\ axisChClosed = FALSE
    /\ taken = {}
    /\ delivered = <<>>
    /\ dropped = {}

\* Gamepad.Close(), or the caller canceling the parent context
Cancel ==
    /\ ~panicked /\ ~ctxDone
    /\ ctxDone' = TRUE
    /\ UNCHANGED <<fileClosed, osClosed, panicked, readLog, reader, mapper, inj, disp, cons,
                   buttonChClosed, axisChClosed, taken, delivered, dropped>>
    /\ UNCHANGED <<gVars, cVars, sVars>>

\* go func() { <-ctx.Done(); _ = r.Close() }()
CloserRun ==
    /\ ~panicked /\ ctxDone /\ ~fileClosed
    /\ fileClosed' = TRUE
    /\ UNCHANGED <<ctxDone, osClosed, panicked, readLog, reader, mapper, inj, disp, cons,
                   buttonChClosed, axisChClosed, taken, delivered, dropped>>
    /\ UNCHANGED <<gVars, cVars, sVars>>

\* readDeviceInput: binary.Read returns an event
ReaderRead(type, index, value) ==
    /\ ~panicked /\ reader.pc = "read" /\ ~fileClosed
    /\ Len(readLog) < MaxRead
    /\ (Len(readLog) < NumInit) <=> (type = initEventType)
    /\ type = initEventType => value = 0
    /\ LET evt == [seq |-> Len(readLog) + 1, Type |-> type, Index |-> index,
                   Value |-> value]
       IN /\ readLog' = Append(readLog, evt)
          /\ reader' = [pc |-> "send", evt |-> evt]
    /\ UNCHANGED <<ctxDone, fileClosed, osClosed, panicked, mapper, inj, disp, cons,
                   buttonChClosed, axisChClosed, taken, delivered, dropped>>
    /\ UNCHANGED <<gVars, cVars, sVars>>

\* readDeviceInput: binary.Read fails; close(c) and return
ReaderClose ==
    /\ reader.pc = "read"
    /\ osClosed' = TRUE
    /\ reader' = [pc |-> "done", evt |-> NoEvent]
    /\ UNCHANGED <<ctxDone, fileClosed, panicked, readLog, mapper, inj, disp, cons,
                   buttonChClosed, axisChClosed, taken, delivered, dropped>>
    /\ UNCHANGED <<gVars, cVars, sVars>>

\* the device fails or is unplugged
ReaderError == ~panicked /\ ~fileClosed /\ ReaderClose

\* the read fails because the device file has been closed
ReaderReadClosed == ~panicked /\ fileClosed /\ ReaderClose

\* mapInitalEvents receives the event readDeviceInput is sending
MapperRecv ==
    /\ ~panicked /\ mapper = "recv" /\ reader.pc = "send"
    /\ reader' = [pc |-> "read", evt |-> NoEvent]
    /\ IF reader.evt.Type \in {129, 130}
       THEN UNCHANGED <<mapper, inj>>
       ELSE /\ mapper' = "done"
            /\ inj' = [pc |-> "send", evt |-> reader.evt]
    /\ UNCHANGED <<ctxDone, fileClosed, osClosed, panicked, readLog, disp, cons,
                   buttonChClosed, axisChClosed, taken, delivered, dropped>>
    /\ UNCHANGED <<gVars, cVars, sVars>>

\* mapInitalEvents finds the channel closed
MapperClosed ==
    /\ ~panicked /\ mapper = "recv" /\ osClosed
    /\ mapper' = "done"
    /\ UNCHANGED <<ctxDone, fileClosed, osClosed, panicked, readLog, reader, inj, disp,
                   cons, buttonChClosed, axisChClosed, taken, delivered, dropped>>
    /\ UNCHANGED <<gVars, cVars, sVars>>

\* the forwarding goroutine sends on the closed channel
InjPanic ==
    /\ ~panicked /\ inj.pc = "send" /\ osClosed
    /\ panicked' = TRUE
    /\ UNCHANGED <<ctxDone, fileClosed, osClosed, readLog, reader, mapper, inj, disp, cons,
                   buttonChClosed, axisChClosed, taken, delivered, dropped>>
    /\ UNCHANGED <<gVars, cVars, sVars>>

\* Gamepad.handleEvents is through with an event and selects again
ConsumerDone ==
    /\ ~panicked /\ cons = "busy"
    /\ cons' = "select"
    /\ UNCHANGED <<ctxDone, fileClosed, osClosed, panicked, readLog, reader, mapper, inj,
                   disp, buttonChClosed, axisChClosed, taken, delivered, dropped>>
    /\ UNCHANGED <<gVars, cVars, sVars>>

\* HID.handleEvents, case <-h.ctx.Done()
DispExitCtx ==
    /\ ~panicked /\ disp.pc = "select" /\ ctxDone
    /\ disp' = [pc |-> "stopped", evt |-> NoEvent]
    /\ UNCHANGED <<ctxDone, fileClosed, osClosed, panicked, readLog, reader, mapper, inj,
                   cons, buttonChClosed, axisChClosed, taken, delivered, dropped>>
    /\ UNCHANGED <<gVars, cVars, sVars>>

\* the receive without the ok test: the loop goes on with zero events
DispClosed_Spin ==
    /\ ~panicked /\ disp.pc = "select" /\ osClosed
    /\ UNCHANGED vars

\* HID.handleEvents, case evt, ok := <-h.osEventsCh with !ok
DispClosed ==
    /\ ~panicked /\ disp.pc = "select" /\ osClosed
    /\ disp' = [pc |-> "stopped", evt |-> NoEvent]
    /\ UNCHANGED <<ctxDone, fileClosed, osClosed, panicked, readLog, reader, mapper, inj,
                   cons, buttonChClosed, axisChClosed, taken, delivered, dropped>>
    /\ UNCHANGED <<gVars, cVars, sVars>>

\* a dispatcher that receives again while it still holds an undelivered event
DispRecvReader_Pipelined ==
    /\ ~panicked /\ disp.pc \in {"select", "sendButton", "sendAxis"} /\ reader.pc = "send"
    /\ reader' = [pc |-> "read", evt |-> NoEvent]
    /\ disp' = IF Classify(reader.evt) = "select" THEN [pc |-> "select", evt |-> NoEvent]
               ELSE [pc |-> Classify(reader.evt), evt |-> reader.evt]
    /\ taken' = taken \cup {reader.evt.seq}
    /\ UNCHANGED <<ctxDone, fileClosed, osClosed, panicked, readLog, mapper, inj, cons,
                   buttonChClosed, axisChClosed, delivered, dropped>>
    /\ UNCHANGED <<gVars, cVars, sVars>>

\* HID.handleEvents receives the event readDeviceInput is sending
DispRecvReader ==
    /\ ~panicked /\ disp.pc = "select" /\ reader.pc = "send"
    /\ reader' = [pc |-> "read", evt |-> NoEvent]
    /\ disp' = IF Classify(reader.evt) = "select" THEN [pc |-> "select", evt |-> NoEvent]
               ELSE [pc |-> Classify(reader.evt), evt |-> reader.evt]
    /\ taken' = taken \cup {reader.evt.seq}
    /\ UNCHANGED <<ctxDone, fileClosed, osClosed, panicked, readLog, mapper, inj, cons,
                   buttonChClosed, axisChClosed, delivered, dropped>>
    /\ UNCHANGED <<gVars, cVars, sVars>>

\* HID.handleEvents receives the event the forwarding goroutine is sending
DispRecvInj ==
    /\ ~panicked /\ disp.pc = "select" /\ inj.pc = "send" /\ ~osClosed
    /\ inj' = [pc |-> "done", evt |-> NoEvent]
    /\ disp' = IF Classify(inj.evt) = "select" THEN [pc |-> "select", evt |-> NoEvent]
               ELSE [pc |-> Classify(inj.evt), evt |-> inj.evt]
    /\ taken' = taken \cup {inj.evt.seq}
    /\ UNCHANGED <<ctxDone, fileClosed, osClosed, panicked, readLog, reader, mapper, cons,
                   buttonChClosed, axisChClosed, delivered, dropped>>
    /\ UNCHANGED <<gVars, cVars, sVars>>

\* the inner select: Gamepad.handleEvents receives from buttonCh or axisCh
DispDeliver ==
    /\ ~panicked /\ disp.pc \in {"sendButton", "sendAxis"} /\ cons = "select"
    /\ delivered' = Append(delivered, Typed(disp.pc, disp.evt))
    /\ cons' = "busy"
    /\ disp' = [pc |-> "select", evt |-> NoEvent]
    /\ UNCHANGED <<ctxDone, fileClosed, osClosed, panicked, readLog, reader, mapper, inj,
                   buttonChClosed, axisChClosed, taken, dropped>>
    /\ UNCHANGED <<gVars, cVars, sVars>>

\* the inner select without its timer case: a plain blocking send
DispTimeout_Never ==
    /\ FALSE
    /\ UNCHANGED vars

\* the inner select: the 20 ms timer fires first and the event is dropped
DispTimeout ==
    /\ ~panicked /\ disp.pc \in {"sendButton", "sendAxis"}
    /\ dropped' = dropped \cup {disp.evt.seq}
    /\ disp' = [pc |-> "select", evt |-> NoEvent]
    /\ UNCHANGED <<ctxDone, fileClosed, osClosed, panicked, readLog, reader, mapper, inj,
                   cons, buttonChClosed, axisChClosed, taken, delivered>>
    /\ UNCHANGED <<gVars, cVars, sVars>>

\* raw indices and values the device reports: index 6 is Select as a button and
\* DPadX as an axis
RawIndices == {6}
RawValues == {0, 1}

PNext ==
    \/ Cancel
    \/ CloserRun
    \/ \E ty \in {buttonEventType, axisEventType, initEventType},
          i \in RawIndices, v \in RawValues : ReaderRead(ty, i, v)
    \/ ReaderError
    \/ ReaderReadClosed
    \/ MapperRecv
    \/ MapperClosed
    \/ InjPanic
    \/ ConsumerDone
    \/ DispExitCtx
    \/ DispClosed
    \/ DispRecvReader
    \/ DispRecvInj
    \/ DispDeliver
    \/ DispTimeout

----------------------------------------------------------------------------
\* Device discovery: hid.Connect on Linux and the start of NewGamepad

\* for i := 0; i < 5; i++
NumDevices == 5

\* the characters strings.TrimSpace removes (unicode.IsSpace); those that
\* cannot be written in a string here stand as their code point
Whitespace ==
    {" ", "\t", "\n", "\f", "\r", "U+000B", "U+0085", "U+00A0", "U+1680",
     "U+2000", "U+2001", "U+2002", "U+2003", "U+2004", "U+2005", "U+2006",
     "U+2007", "U+2008", "U+2009", "U+200A", "U+2028", "U+2029", "U+202F",
     "U+205F", "U+3000"}

\* strings.TrimSpace on a text given as a sequence of pieces, each a white
\* space character or a run of other characters
RECURSIVE TrimLeft(_)
TrimLeft(s) ==
    IF s # <<>> /\ Head(s) \in Whitespace THEN TrimLeft(Tail(s)) ELSE s

RECURSIVE TrimRight(_)
TrimRight(s) ==
    IF s # <<>> /\ s[Len(s)] \in Whitespace
    THEN TrimRight(SubSeq(s, 1, Len(s) - 1)) ELSE s

TrimSpace(s) == TrimRight(TrimLeft(s))

\* string(d): the pieces put together
RECURSIVE Join(_)
Join(s) == IF s = <<>> THEN "" ELSE Head(s) \o Join(Tail(s))

\* os.Stat("/dev/input/js<i>") succeeds
deviceExists(devs, i) == devs[i].node

\* isGamepad without the TrimSpace
isGamepad_NoTrim(devs, i) ==
    IF ~devs[i].readable THEN [ok |-> FALSE, driver |-> ""]
    ELSE LET name == Join(devs[i].name)
         IN IF name \in DOMAIN DriverMapping
            THEN [ok |-> TRUE, driver |-> name]
            ELSE [ok |-> FALSE, driver |-> ""]

\* isGamepad(i): the driver whose name the name file of js<i> holds
isGamepad(devs, i) ==
    IF ~devs[i].readable THEN [ok |-> FALSE, driver |-> ""]
    ELSE LET name == Join(TrimSpace(devs[i].name))
         IN IF name \in DOMAIN DriverMapping
            THEN [ok |-> TRUE, driver |-> name]
            ELSE [ok |-> FALSE, driver |-> ""]

\* the loop of Connect from index i on: the first device that exists and is a
\* gamepad, or deviceIndex -1
RECURSIVE FindDevice(_, _)
FindDevice(devs, i) ==
    IF i >= NumDevices THEN [deviceIndex |-> 0 - 1, driver |-> ""]
    ELSE IF deviceExists(devs, i) /\ isGamepad(devs, i).ok
    THEN [deviceIndex |-> i, driver |-> isGamepad(devs, i).driver]
    ELSE FindDevice(devs, i + 1)

NoConn == [pc |-> "idle", hid |-> FALSE, err |-> FALSE, deviceIndex |-> 0 - 1, Driver |-> ""]

\* Connect: what it returns; os.OpenFile succeeds on a device that is openable
Connect(devs) ==
    LET f == FindDevice(devs, 0)
    IN IF f.deviceIndex = 0 - 1
       THEN [pc |-> "returned", hid |-> FALSE, err |-> TRUE,
             deviceIndex |-> f.deviceIndex, Driver |-> ""]
       ELSE IF ~devs[f.deviceIndex].openable
       THEN [pc |-> "returned", hid |-> FALSE, err |-> TRUE,
             deviceIndex |-> f.deviceIndex, Driver |-> ""]
       ELSE [pc |-> "returned", hid |-> TRUE, err |-> FALSE,
             deviceIndex |-> f.deviceIndex, Driver |-> f.driver]

\* NewGamepad calls hid.Connect: without a device that is a pad and can be
\* opened it returns the error; with one it makes the HID (newHID starts the
\* dispatcher), starts the closer and readDeviceInput, and enters
\* mapInitalEvents
ConnectStart ==
    /\ conn.pc = "idle"
    /\ conn' = IF Connect(devices).hid THEN [Connect(devices) EXCEPT !.pc = "mapping"]
               ELSE Connect(devices)
    /\ UNCHANGED <<devices, gp>>
    /\ UNCHANGED <<gVars, pVars, sVars>>

\* mapInitalEvents has returned, and Connect returns the HID
ConnectReturn ==
    /\ ~panicked
    /\ conn.pc = "mapping" /\ mapper = "done"
    /\ conn' = [conn EXCEPT !.pc = "returned"]
    /\ UNCHANGED <<devices, gp>>
    /\ UNCHANGED <<gVars, pVars, sVars>>

\* NewGamepad after hid.Connect: without a device it cancels its context and
\* returns an error, with one it starts g.handleEvents (go g.handleEvents())
\* and returns the Gamepad
NewGamepadReturn ==
    /\ ~panicked
    /\ conn.pc = "returned"
    /\ gp.pc = "connecting"
    /\ gp' = IF ~conn.hid
             THEN [pc |-> "returned", err |-> TRUE, task |-> FALSE]
             ELSE [pc |-> "returned", err |-> FALSE, task |-> TRUE]
    /\ ctxDone' = (ctxDone \/ ~conn.hid)
    /\ cons' = IF conn.hid THEN "select" ELSE cons
    /\ UNCHANGED <<devices, conn>>
    /\ UNCHANGED <<fileClosed, osClosed, panicked, readLog, reader, mapper, inj,
                   disp, buttonChClosed, axisChClosed, taken, delivered, dropped>>
    /\ UNCHANGED <<gVars, sVars>>

\* what /dev/input and /sys/class/input can hold for one index
\* no device node, though a name file of a pad is there
NoDevice ==
    [node |-> FALSE, readable |-> TRUE, openable |-> FALSE,
     name |-> <<"Microsoft X-Box 360 pad", "\n">>]
\* a pad the process may not open
LockedDevice ==
    [node |-> TRUE, readable |-> TRUE, openable |-> FALSE,
     name |-> <<"Microsoft X-Box 360 pad", "\n">>]
\* a pad that is there and may be opened
PlainPad ==
    [node |-> TRUE, readable |-> TRUE, openable |-> TRUE,
     name |-> <<"Microsoft X-Box 360 pad", "\n">>]
DeviceOptions ==
    {NoDevice, LockedDevice, PlainPad,
     [node |-> TRUE, readable |-> FALSE, openable |-> TRUE, name |-> <<>>]}
      \cup {[node |-> TRUE, readable |-> TRUE, openable |-> TRUE, name |-> n] :
               n \in {<<" ", "SHANWAN Android Gamepad", "\n">>,
                      <<"microsoft x-box 360 pad", "\n">>,
                      <<"Microsoft X-Box 360 pad", " ", "v2", "\n">>,
                      <<"Microsoft X-Box 360 pad", "\r", "\n">>,
                      <<"U+00A0", "\f", "SHANWAN Android Gamepad", "\n">>}}

\* the populations explored: anything at js0..js2, a pad or nothing at js3, js4
Populations ==
    {f \in [0..(NumDevices - 1) -> DeviceOptions] :
        \A i \in 3..(NumDevices - 1) : f[i] \in {NoDevice, PlainPad}}

\* an X-Box pad is js0, Connect found it and NewGamepad has returned
Connected ==
    /\ devices = [i \in 0..(NumDevices - 1) |-> IF i = 0 THEN PlainPad ELSE NoDevice]
    /\ conn = Connect(devices)
    /\ gp = [pc |-> "returned", err |-> FALSE, task |-> TRUE]

\* an X-Box pad is js0, and Connect, called by NewGamepad, has found it,
\* started its goroutines and entered mapInitalEvents
Started ==
    /\ devices = [i \in 0..(NumDevices - 1) |-> IF i = 0 THEN PlainPad ELSE NoDevice]
    /\ conn = [Connect(devices) EXCEPT !.pc = "mapping"]
    /\ gp = [pc |-> "connecting", err |-> FALSE, task |-> FALSE]

----------------------------------------------------------------------------
\* The polled transport of macOS: readDeviceInput decodes each USB report and
\* emits an event for every edge it finds against its cache

invalidEventType == 0

startButtonIndex == 1
selectButtonIndex == 2
ljButtonIndex == 3
rjButtonIndex == 4
dpadXAxisIndex == 5
dpadYAxisIndex == 6
crossButtonIndex == 7
circleButtonIndex == 8
squareButtonIndex == 9
triangleButtonIndex == 10
l1ButtonIndex == 11
r1ButtonIndex == 12
analogButtonIndex == 13
l2AxisIndex == 14
r2AxisIndex == 15
ljxAxisIndex == 16
ljyAxisIndex == 17
rjxAxisIndex == 18
rjyAxisIndex == 19

\* cache.buttonEdge(b, want, &flag)
buttonEdge(b, want, flag) ==
    IF b = want
    THEN (IF ~flag THEN [flag |-> TRUE, type |-> buttonEventType, v |-> 1]
          ELSE [flag |-> flag, type |-> invalidEventType, v |-> 0])
    ELSE IF flag THEN [flag |-> FALSE, type |-> buttonEventType, v |-> 0]
    ELSE [flag |-> flag, type |-> invalidEventType, v |-> 0]

\* cache.axisEdge(val, &flag)
axisEdge(val, flag) ==
    IF val # 0 THEN [flag |-> TRUE, type |-> axisEventType, v |-> val]
    ELSE IF flag THEN [flag |-> FALSE, type |-> axisEventType, v |-> 0]
    ELSE [flag |-> flag, type |-> invalidEventType, v |-> 0]

\* the values readDeviceInput decodes from a report
b2msb(r) == r.b2 \div 16
b2lsb(r) == r.b2 % 16
b3msb(r) == r.b3 \div 16
b3lsb(r) == r.b3 % 16

\* The body of the loop of readDeviceInput, statement by statement: the cache
\* flag, how the field is tested (button: buttonEdge and the event as it
\* comes; level: buttonEdge and an axis event of value on or 0; stick:
\* axisEdge), the decoded value, the value buttonEdge looks for, the index of
\* the event and the value of a rising level.
Steps(r) ==
    << [flag |-> "startBtn",  how |-> "button", b |-> b2msb(r), want |-> 1,
        index |-> startButtonIndex, on |-> 0],
       [flag |-> "selectBtn", how |-> "button", b |-> b2msb(r), want |-> 2,
        index |-> selectButtonIndex, on |-> 0],
       [flag |-> "ljBtn",     how |-> "button", b |-> b2msb(r), want |-> 4,
        index |-> ljButtonIndex, on |-> 0],
       [flag |-> "rjBtn",     how |-> "button", b |-> b2msb(r), want |-> 8,
        index |-> rjButtonIndex, on |-> 0],
       [flag |-> "lpadAxis",  how |-> "level", b |-> b2lsb(r), want |-> 4,
        index |-> dpadXAxisIndex, on |-> 0 - MaxValue],
       [flag |-> "rpadAxis",  how |-> "level", b |-> b2lsb(r), want |-> 8,
        index |-> dpadXAxisIndex, on |-> MaxValue],
       [flag |-> "upadAxis",  how |-> "level", b |-> b2lsb(r), want |-> 1,
        index |-> dpadYAxisIndex, on |-> MaxValue],
       [flag |-> "dpadAxis",  how |-> "level", b |-> b2lsb(r), want |-> 2,
        index |-> dpadYAxisIndex, on |-> 0 - MaxValue],
       [flag |-> "xBtn",      how |-> "button", b |-> b3msb(r), want |-> 1,
        index |-> crossButtonIndex, on |-> 0],
       [flag |-> "oBtn",      how |-> "button", b |-> b3msb(r), want |-> 2,
        index |-> circleButtonIndex, on |-> 0],
       [flag |-> "sBtn",      how |-> "button", b |-> b3msb(r), want |-> 4,
        index |-> squareButtonIndex, on |-> 0],
       [flag |-> "tBtn",      how |-> "button", b |-> b3msb(r), want |-> 8,
        index |-> triangleButtonIndex, on |-> 0],
       [flag |-> "l1Btn",     how |-> "button", b |-> b3lsb(r), want |-> 1,
        index |-> l1ButtonIndex, on |-> 0],
       [flag |-> "r1Btn",     how |-> "button", b |-> b3lsb(r), want |-> 2,
        index |-> r1ButtonIndex, on |-> 0],
       [flag |-> "analogBtn", how |-> "button", b |-> b3lsb(r), want |-> 4,
        index |-> analogButtonIndex, on |-> 0],
       [flag |-> "l2Axis",    how |-> "level", b |-> r.b4, want |-> 255,
        index |-> l2AxisIndex, on |-> MaxValue],
       [flag |-> "r2Axis",    how |-> "level", b |-> r.b5, want |-> 255,
        index |-> r2AxisIndex, on |-> MaxValue],
       [flag |-> "ljXAxis",   how |-> "stick", b |-> r.b67, want |-> 0,
        index |-> ljxAxisIndex, on |-> 0],
       [flag |-> "ljYAxis",   how |-> "stick", b |-> r.b89, want |-> 0,
        index |-> ljyAxisIndex, on |-> 0],
       [flag |-> "rjXAxis",   how |-> "stick", b |-> r.b1011, want |-> 0,
        index |-> rjxAxisIndex, on |-> 0],
       [flag |-> "rjYAxis",   how |-> "stick", b |-> r.b1213, want |-> 0,
        index |-> rjyAxisIndex, on |-> 0] >>

CacheFlags ==
    {"startBtn", "selectBtn", "ljBtn", "rjBtn", "lpadAxis", "rpadAxis", "upadAxis",
     "dpadAxis", "xBtn", "oBtn", "sBtn", "tBtn", "l1Btn", "r1Btn", "analogBtn",
     "l2Axis", "r2Axis", "ljXAxis", "ljYAxis", "rjXAxis", "rjYAxis"}

\* one statement of the loop body: the edge test, and emit if it found an edge
Step(st, f) ==
    LET e == IF f.how = "stick" THEN axisEdge(f.b, st.cache[f.flag])
             ELSE buttonEdge(f.b, f.want, st.cache[f.flag])
        ev == IF f.how = "level"
              THEN [Type |-> axisEventType, Index |-> f.index,
                    Value |-> IF e.v = 1 THEN f.on ELSE 0]
              ELSE [Type |-> e.type, Index |-> f.index, Value |-> e.v]
    IN [cache |-> [st.cache EXCEPT ![f.flag] = e.flag],
        out |-> IF e.type # invalidEventType THEN Append(st.out, ev) ELSE st.out]

\* a report with nothing pressed
RestReport ==
    [b2 |-> 0, b3 |-> 0, b4 |-> 0, b5 |-> 0, b67 |-> 0, b89 |-> 0, b1011 |-> 0, b1213 |-> 0]

\* what statement f of the body does with the cache as it is; a statement
\* reads and writes no flag but its own
StepAt(cache, f) == Step([cache |-> cache, out |-> <<>>], f)

\* the first statement from the k-th on that finds an edge, 0 if none does
RECURSIVE FirstEmit(_, _, _)
FirstEmit(cache, steps, k) ==
    IF k > Len(steps) THEN 0
    ELSE IF StepAt(cache, steps[k]).out # <<>> THEN k
    ELSE FirstEmit(cache, steps, k + 1)

\* the place in the body of the statement that owns each cache flag
StatementOf ==
    [f \in CacheFlags |->
       CHOOSE k \in 1..Len(Steps(RestReport)) : Steps(RestReport)[k].flag = f]

\* The statements after the p-th, up to and including the first that finds an
\* edge: emit blocks in ch <- ev until the event is received.  at is the
\* statement readDeviceInput waits in, 0 when the body has ended.
RunToEmit(cache, out, r, p) ==
    LET steps == Steps(r)
        at == FirstEmit(cache, steps, p + 1)
        last == IF at = 0 THEN Len(steps) ELSE at
    IN [cache |-> [f \in CacheFlags |->
                     IF StatementOf[f] > p /\ StatementOf[f] <= last
                     THEN StepAt(cache, steps[StatementOf[f]]).cache[f] ELSE cache[f]],
        out |-> IF at = 0 THEN out ELSE out \o StepAt(cache, steps[at]).out,
        at |-> at]

\* reports read in the exploration
MaxPolls == 2

\* the reports explored: byte 2 with Start (0x10), Start and Select (0x30),
\* d-pad left (0x04) and right (0x08); byte 3 with Cross (0x10); the L2 byte
\* half and fully pressed; the left stick X at rest and off centre
Reports ==
    {[RestReport EXCEPT !.b2 = x2, !.b3 = x3, !.b4 = x4, !.b67 = x67] :
       x2 \in {0, 16, 48, 4, 8}, x3 \in {0, 16}, x4 \in {0, 128, 255}, x67 \in {0, 100}}

\* readDeviceInput: in.Read returns report r, and the loop body runs up to
\* its first emit
Poll(r) ==
    /\ ~panicked /\ pollAt = 0
    /\ nPolls < MaxPolls
    /\ nPolls' = nPolls + 1
    /\ lastBuf' = buf
    /\ buf' = r
    /\ LET run == RunToEmit(padCache, <<>>, r, 0)
       IN /\ padCache' = run.cache
          /\ emitted' = run.out
          /\ pollAt' = run.at
    /\ UNCHANGED <<gVars, pVars, cVars>>

\* the event emit is sending has been received: emit returns and the loop
\* body goes on to its next emit, or to its end
EmitReturn ==
    /\ ~panicked /\ pollAt > 0
    /\ LET run == RunToEmit(padCache, emitted, buf, pollAt)
       IN /\ padCache' = run.cache
          /\ emitted' = run.out
          /\ pollAt' = run.at
    /\ UNCHANGED <<lastBuf, buf, nPolls>>
    /\ UNCHANGED <<gVars, pVars, cVars>>

\* in.Read returns an error, or no bytes: log.Fatalf ends the process
ReadFatal ==
    /\ ~panicked /\ pollAt = 0 /\ reader.pc = "read"
    /\ panicked' = TRUE
    /\ UNCHANGED <<ctxDone, fileClosed, osClosed, readLog, reader, mapper, inj, disp, cons,
                   buttonChClosed, axisChClosed, taken, delivered, dropped>>
    /\ UNCHANGED <<gVars, cVars, sVars>>

\* reports that differ from the report before them, in the exploration of
\* dropped events: the presses and releases made on the pad
MaxDropPolls == 3

\* the reports of a pad on which only Cross is used
CrossReports == {RestReport, [RestReport EXCEPT !.b3 = 16]}

\* the event emit sends on osEventsCh
Sending(out) ==
    [pc |-> "send",
     evt |-> [seq |-> Cardinality(taken) + 1, Type |-> out[Len(out)].Type,
              Index |-> out[Len(out)].Index, Value |-> out[Len(out)].Value]]

\* readDeviceInput with HID.handleEvents at the other end of osEventsCh:
\* in.Read returns report r and the loop body runs up to its first emit, where
\* it waits for the dispatcher; a pad that is left alone is polled again and
\* again and returns the same report
PollSend(r) ==
    /\ ~panicked /\ reader.pc = "read" /\ pollAt = 0
    /\ r = buf \/ nPolls < MaxDropPolls
    /\ nPolls' = IF r = buf THEN nPolls ELSE nPolls + 1
    /\ lastBuf' = buf
    /\ buf' = r
    /\ LET run == RunToEmit(padCache, <<>>, r, 0)
       IN /\ padCache' = run.cache
          /\ emitted' = run.out
          /\ pollAt' = run.at
          /\ reader' = IF run.at = 0 THEN reader ELSE Sending(run.out)
    /\ UNCHANGED <<ctxDone, fileClosed, osClosed, panicked, readLog, mapper, inj, disp, cons,
                   buttonChClosed, axisChClosed, taken, delivered, dropped>>
    /\ UNCHANGED <<gVars, cVars>>

\* the dispatcher has received the event: emit returns and the loop body
\* goes on to its next emit, or to its end
PollResume ==
    /\ ~panicked /\ reader.pc = "read" /\ pollAt > 0
    /\ LET run == RunToEmit(padCache, emitted, buf, pollAt)
       IN /\ padCache' = run.cache
          /\ emitted' = run.out
          /\ pollAt' = run.at
          /\ reader' = IF run.at = 0 THEN reader ELSE Sending(run.out)
    /\ UNCHANGED <<lastBuf, buf, nPolls>>
    /\ UNCHANGED <<ctxDone, fileClosed, osClosed, panicked, readLog, mapper, inj, disp, cons,
                   buttonChClosed, axisChClosed, taken, delivered, dropped>>
    /\ UNCHANGED <<gVars, cVars>>

\* the inner select of HID.handleEvents meets case event := <-g.device.OnButton()
\* of Gamepad.handleEvents, which looks the event up in the mapping NewGamepad
\* found for the "MacOS" driver
TakeButton ==
    /\ ~panicked /\ disp.pc = "sendButton" /\ cons = "select"
    /\ delivered' = Append(delivered, Typed(disp.pc, disp.evt))
    /\ cons' = "busy"
    /\ disp' = [pc |-> "select", evt |-> NoEvent]
    /\ UNCHANGED <<ctxDone, fileClosed, osClosed, panicked, readLog, reader, mapper, inj,
                   buttonChClosed, axisChClosed, taken, dropped>>
    /\ UNCHANGED <<cVars, sVars>>
    /\ ButtonCase(polledInputMapping, disp.evt.Index, disp.evt.Value)
    /\ UNCHANGED missAt

\* c := cache{}, nothing read yet
SInit ==
    /\ padCache = [f \in CacheFlags |-> FALSE]
    /\ lastBuf = RestReport
    /\ buf = RestReport
    /\ emitted = <<>>
    /\ nPolls = 0
    /\ pollAt = 0

----------------------------------------------------------------------------
\* Specifications

\* the gesture engine, fed with events directly
Init == GInit /\ PInit /\ Connected /\ SInit
Next == GNext
Spec == Init /\ [][Next]_vars

\* the pipeline, with one subscription set and the engine at rest
InitDispatch ==
    /\ GInit
    /\ clickDuration = defaultClickDuration
    /\ btn["CrossButton"] = NewButton(TRUE, {})
    /\ PInit
    /\ Started
    /\ SInit
NextDispatch ==
    \/ PNext
    \/ ConnectReturn
    \/ NewGamepadReturn
SpecDispatch == InitDispatch /\ [][NextDispatch]_vars

\* The Go scheduler runs every goroutine that can run, a timer that was set
\* fires, and a read on a closed file returns.  Nothing obliges the caller to
\* cancel, the device to fail, or a handler to return.
FairDispatch ==
    /\ WF_vars(CloserRun)
    /\ WF_vars(ReaderReadClosed)
    /\ WF_vars(MapperRecv)
    /\ WF_vars(MapperClosed)
    /\ WF_vars(InjPanic)
    /\ WF_vars(ConnectReturn)
    /\ WF_vars(NewGamepadReturn)
    /\ WF_vars(DispExitCtx)
    /\ WF_vars(DispClosed)
    /\ WF_vars(DispRecvReader)
    /\ WF_vars(DispRecvInj)
    /\ WF_vars(DispTimeout)
SpecDispatchFair == InitDispatch /\ [][NextDispatch]_vars /\ FairDispatch

\* the gesture engine with Gamepad.Close(): one button, subscribed to every
\* kind.  Gamepad.handleEvents has no case for the context: it goes on
\* processing whatever the dispatcher still delivers after Close().
InitClose ==
    /\ GInit
    /\ clickDuration = defaultClickDuration
    /\ btn["CrossButton"] = NewButton(TRUE, {})
    /\ PInit
    /\ Connected
    /\ SInit
NextClose ==
    \/ Cancel
    \/ \E i \in ButtonIndices, v \in ButtonValues : HandleButton(i, v) /\ UNCHANGED missAt
    \/ \E i \in AxisIndices, v \in AxisValues : HandleAxis(i, v) /\ UNCHANGED missAt
    \/ \E x \in timers : TimerFire(x.tid)
    \/ \E x \in timers : HoldBegin(x.tid)
    \/ \E x \in timers : HoldEnd(x.tid)
    \/ Tick
SpecClose == InitClose /\ [][NextClose]_vars

\* the gesture engine with a second OnCross call at any moment
InitResub ==
    /\ GInit
    /\ clickDuration = defaultClickDuration
    /\ btn["CrossButton"] = NewButton(TRUE, {})
    /\ PInit
    /\ Connected
    /\ SInit

\* events taken in the exploration of the subscription calls
MaxResubEvents == 2

NextResub ==
    \/ \E v \in ButtonValues :
          nEvents < MaxResubEvents /\ HandleButton(0, v) /\ UNCHANGED missAt
    \/ nEvents < MaxResubEvents /\ HandleButton(1, 1) /\ UNCHANGED missAt
    \/ \E x \in timers : TimerFire(x.tid)
    \/ \E x \in timers : HoldBegin(x.tid)
    \/ \E x \in timers : HoldEnd(x.tid)
    \/ Tick
    \/ OnCross(TRUE, {})
    \/ OnCircle(TRUE, {})
    \/ OnSquare(TRUE, {})
    \/ OnTriangle(TRUE, {})
    \/ OnL1(TRUE, {})
    \/ OnR1(TRUE, {})
    \/ OnL2(TRUE, {})
    \/ OnR2(TRUE, {})
    \/ OnSelect(TRUE, {})
    \/ OnStart(TRUE, {})
    \/ OnAnalog(TRUE, {})
    \/ OnLJ(TRUE, {})
    \/ OnRJ(TRUE, {})
    \/ \E id \in ButtonSlots : SeeButton(id)
SpecResub == InitResub /\ [][NextResub]_vars

\* the polled transport alone
InitSynth ==
    /\ GInit
    /\ clickDuration = defaultClickDuration
    /\ btn["CrossButton"] = NewButton(TRUE, {})
    /\ PInit
    /\ Connected
    /\ SInit
NextSynth ==
    \/ \E r \in Reports : Poll(r)
    \/ EmitReturn
    \/ ReadFatal
SpecSynth == InitSynth /\ [][NextSynth]_vars

\* the polled transport, the dispatcher and the engine for one button
InitDrop == AInit /\ PInitPolled /\ Connected /\ SInit
NextDrop ==
    \/ \E r \in CrossReports : PollSend(r)
    \/ PollResume
    \/ ReadFatal
    \/ DispRecvReader
    \/ TakeButton
    \/ DispTimeout
    \/ ConsumerDone
\* Every goroutine that can run does run, the timer of the inner select fires,
\* and here every handler returns.  Nothing obliges the user to touch the pad.
FairDrop ==
    /\ WF_vars(PollResume)
    /\ WF_vars(DispRecvReader)
    /\ WF_vars(TakeButton)
    /\ WF_vars(DispTimeout)
    /\ WF_vars(ConsumerDone)
SpecDrop == InitDrop /\ [][NextDrop]_vars /\ FairDrop

\* the axes: direction handlers, triggers and mapping misses, at one instant
InitAxis == AInit /\ PInit /\ Connected /\ SInit
NextAxis == ANext
SpecAxis == InitAxis /\ [][NextAxis]_vars

\* device discovery: any population of js0..js4, nothing connected yet
InitConnect ==
    /\ GInit
    /\ clickDuration = defaultClickDuration
    /\ btn["CrossButton"] = NewButton(TRUE, {})
    /\ PInit
    /\ devices \in Populations
    /\ conn = NoConn
    /\ gp = [pc |-> "connecting", err |-> FALSE, task |-> FALSE]
    /\ SInit
\* the goroutines Connect starts run once it has started them; the pad sends
\* its init event and then a button event, or fails
NextConnect ==
    \/ ConnectStart
    \/ /\ conn.pc # "idle" /\ conn.hid
       /\ \/ ReaderRead(IF Len(readLog) < NumInit THEN initEventType
                         ELSE buttonEventType, 6, IF Len(readLog) < NumInit THEN 0 ELSE 1)
          \/ ReaderError
          \/ MapperRecv
          \/ MapperClosed
          \/ DispRecvReader
          \/ DispClosed
    \/ ConnectReturn
    \/ NewGamepadReturn
SpecConnect == InitConnect /\ [][NextConnect]_vars

----------------------------------------------------------------------------
\* Properties of the gesture engine

\* how often the handler of id was invoked with ev for press p
EvCount(id, p, ev) ==
    Cardinality({k \in 1..Len(log) : log[k].id = id /\ log[k].press = p /\ log[k].ev = ev})

FilterPress(e, id, p) == e.id = id /\ e.press = p /\ e.ev # HoldEvent

\* the Down, Up and Click invocations of press p of id, in order
PressEvents(id, p) ==
    LET sel == SelectSeq(log, LAMBDA e : FilterPress(e, id, p))
    IN [k \in 1..Len(sel) |-> sel[k].ev]

\* the button is subscribed to all four event kinds
AllKinds(b) == b.sub /\ \A e \in ButtonEvents : includes(b, e)

PressTimers(id, p) == {x \in timers : x.id = id /\ x.press = p}

\* C1: an event whose position equals the lastPosition of its subscribed button
\* invokes no handler and leaves the button (lastPosition, downTime, holdTimer)
\* and every timer as they were.
C1_Debounce ==
    [][(nEvents' = nEvents + 1 /\ lastEvt'.dup)
         => (btn' = btn /\ timers' = timers /\ log' = log)]_vars

\* a second Down on Cross arrived while its hold timer was pending, and the
\* press still has its single Down invocation
C1_Witness ==
    /\ lastEvt.dup /\ lastEvt.kind = "button" /\ lastEvt.index = 0 /\ lastEvt.value = 1
    /\ AllKinds(btn["CrossButton"])
    /\ TimerStatus(timers, btn["CrossButton"].holdTimer) = "armed"
    /\ pressNo["CrossButton"] = 1
    /\ EvCount("CrossButton", 1, DownEvent) = 1

\* C2: for a button subscribed to all kinds, a press released within the click
\* window has the invocations Down, Up, Click, in that order, Click exactly once.
C2_ClickOrder ==
    \A k \in 1..Len(presses) :
        (AllKinds(btn[presses[k].id]) /\ presses[k].released /\ presses[k].quick)
          => PressEvents(presses[k].id, presses[k].press)
               = <<DownEvent, UpEvent, ClickEvent>>

C2_Witness ==
    \E k \in 1..Len(presses) :
        /\ presses[k].id = "CrossButton" /\ AllKinds(btn["CrossButton"])
        /\ presses[k].released /\ presses[k].quick
        /\ EvCount("CrossButton", presses[k].press, ClickEvent) = 1

\* C3: for a button subscribed to Hold, no press has two Hold invocations; a
\* press that lasted at least holdDuration has its timer fired (never stopped),
\* and exactly one Hold invocation once the timer's goroutine has called the
\* handler; a press released at or after clickDuration has no Click.
C3_Hold ==
    \A k \in 1..Len(presses) :
        LET r == presses[k]
            b == btn[r.id]
        IN /\ (b.sub /\ includes(b, HoldEvent)) =>
                /\ EvCount(r.id, r.press, HoldEvent) <= 1
                /\ (r.released /\ r.held) =>
                     /\ Cardinality(PressTimers(r.id, r.press)) = 1
                     /\ \A x \in PressTimers(r.id, r.press) :
                          /\ x.status \in {"fired", "running", "done"}
                          /\ (x.status \in {"running", "done"})
                               <=> (EvCount(r.id, r.press, HoldEvent) = 1)
           /\ (b.sub /\ r.released /\ ~r.quick) => EvCount(r.id, r.press, ClickEvent) = 0

\* C4: a press released before holdDuration has elapsed, its hold timer not yet
\* fired, never has a Hold invocation, and its timer stays stopped.
C4_HoldCancel ==
    \A k \in 1..Len(presses) :
        LET r == presses[k]
            b == btn[r.id]
        IN (b.sub /\ includes(b, HoldEvent) /\ r.released /\ ~r.held) =>
             /\ r.timerWas = "armed"
             /\ EvCount(r.id, r.press, HoldEvent) = 0
             /\ \A x \in PressTimers(r.id, r.press) : x.status = "stopped"

\* a press of Cross was released early, and the clock has since passed the
\* moment its hold timer would have fired
C4_Witness ==
    \E k \in 1..Len(presses) :
        /\ presses[k].id = "CrossButton" /\ includes(btn["CrossButton"], HoldEvent)
        /\ btn["CrossButton"].sub
        /\ presses[k].released /\ ~presses[k].held
        /\ presses[k].press = pressNo["CrossButton"]
        /\ now > downAt["CrossButton"] + holdDuration

\* C5: no Hold invocation of a press starts after the Up of that press has
\* been processed, and no handler invocation starts while another execution
\* context is inside the handler of the same button.
C5_HoldSynchronized ==
    /\ \A i \in 1..Len(log) :
         log[i].ev = HoldEvent =>
           \A k \in 1..Len(presses) :
             (presses[k].id = log[i].id /\ presses[k].press = log[i].press
                /\ presses[k].released) => i <= presses[k].upLogLen
    /\ \A i \in 1..Len(log) : ~log[i].conc

----------------------------------------------------------------------------
\* Properties of the dispatcher

DispSending == disp.pc \in {"sendButton", "sendAxis"}

DeliveredSeqs == {delivered[k].seq : k \in 1..Len(delivered)}

\* C6: every button or axis event the dispatcher has taken is eventually
\* delivered or dropped, the dispatcher then being back at its outer select,
\* whatever the consumer does; and readDeviceInput does not stay blocked in
\* its send while the dispatcher runs.  (A run ended by the panic of the
\* forwarding goroutine ends the dispatcher with the process.)
C6_DispatcherLiveness ==
    /\ \A s \in 1..(MaxRead + 1) :
         (DispSending /\ disp.evt.seq = s)
            ~> (((s \in dropped \/ s \in DeliveredSeqs) /\ disp.pc = "select") \/ panicked)
    /\ (reader.pc = "send") ~> (reader.pc # "send" \/ disp.pc = "stopped" \/ panicked)

\* an event was dropped although the processing task had been started: it was
\* busy; and the dispatcher took a later event
C6_Witness ==
    /\ cons = "busy"
    /\ dropped # {}
    /\ \E s \in taken : \E d \in dropped : s > d
    /\ disp.pc = "select"

\* C7: every delivered event stems from one ingress event of the kind of its
\* channel, with that event's index and value; no ingress event is delivered
\* twice; a dropped event is never delivered.
C7_DispatchClassification ==
    /\ \A k \in 1..Len(delivered) :
         LET d == delivered[k] IN
           /\ d.seq \in taken
           /\ d.seq \in 1..Len(readLog)
           /\ readLog[d.seq].Type = (IF d.ch = "button" THEN buttonEventType
                                     ELSE axisEventType)
           /\ readLog[d.seq].Index = d.Index
           /\ readLog[d.seq].Value = d.Value
           /\ \A j \in 1..Len(delivered) : delivered[j].seq = d.seq => j = k
    /\ dropped \cap DeliveredSeqs = {}

\* a button event was dropped and a later axis event delivered
C7_Witness ==
    /\ \E k \in 1..Len(delivered) : \E s \in dropped :
         /\ delivered[k].ch = "axis" /\ delivered[k].seq > s
         /\ readLog[s].Type = buttonEventType
         /\ delivered[k].Index = 6 /\ delivered[k].Value = 1

\* C8: once the context is canceled or the ingress channel closed, the
\* dispatcher eventually stops (or the process has died), and a stopped
\* dispatcher stays stopped and delivers nothing.
C8_DispatcherShutdown ==
    /\ (ctxDone \/ osClosed) ~> (disp.pc = "stopped" \/ panicked)
    /\ [][disp.pc = "stopped" => (disp'.pc = "stopped" /\ delivered' = delivered)]_vars

\* the dispatcher stopped on the closed ingress channel, without a cancel
C8_Witness ==
    /\ disp.pc = "stopped" /\ osClosed /\ ~ctxDone
    /\ delivered # <<>>

\* C9: a dispatcher that has stopped has closed buttonCh and axisCh.
C9_OutputsClosed ==
    disp.pc = "stopped" => (buttonChClosed /\ axisChClosed)

\* C10: once the context is canceled or the ingress channel closed, the
\* processing task eventually exits.
C10_ProcessingExits ==
    (cons \in {"select", "busy"} /\ (ctxDone \/ osClosed)) ~> (cons = "exited" \/ panicked)

----------------------------------------------------------------------------
\* Properties of shutdown

\* C11: after Close() no handler is invoked: a hold timer pending at Close()
\* has been canceled.
C11_CloseCancelsTimers ==
    [][ctxDone => log' = log]_vars

\* C12: after the context is canceled, readDeviceInput eventually terminates.
C12_ReaderTerminates ==
    ctxDone ~> (reader.pc = "done" \/ panicked)

----------------------------------------------------------------------------
\* Properties of device discovery

\* the text is the key k with nothing but white space before and after it
NameIs(n, k) ==
    \E j \in 1..Len(n) : /\ n[j] = k
                         /\ \A m \in (1..Len(n)) \ {j} : n[m] \in Whitespace

\* the indices whose node exists and whose name file holds a driver name
Matching ==
    {i \in 0..4 : /\ devices[i].node
                  /\ devices[i].readable
                  /\ \E k \in DOMAIN DriverMapping : NameIs(devices[i].name, k)}

\* C14: Connect selects the lowest index in 0..4 whose node exists and whose
\* trimmed name is, case-sensitively, a key of the driver mapping, and sets
\* Driver to that key; with no such index it returns an error and no HID, and
\* NewGamepad then returns an error and does not start the processing task.
C14_DeviceResolution ==
    /\ gp.task => conn.hid
    /\ conn.pc = "returned" =>
         /\ Matching = {} => /\ conn.err /\ ~conn.hid
                             /\ gp.pc = "returned" => gp.err /\ ~gp.task
         /\ Matching # {} =>
              LET i == CHOOSE m \in Matching : \A o \in Matching : m <= o
              IN /\ conn.deviceIndex = i
                 /\ conn.hid => NameIs(devices[i].name, conn.Driver)
                 /\ devices[i].openable => conn.hid /\ ~conn.err
                 /\ conn.hid /\ gp.pc = "returned" => ~gp.err /\ gp.task

\* js0 has no node, js1 has a name in the wrong case, js2 and js3 are pads:
\* Connect took js2, whose name needed trimming, and the task runs
C14_Witness ==
    /\ gp.pc = "returned" /\ gp.task
    /\ ~devices[0].node
    /\ devices[1].name = <<"microsoft x-box 360 pad", "\n">>
    /\ devices[2].name = <<" ", "SHANWAN Android Gamepad", "\n">>
    /\ 3 \in Matching
    /\ conn.deviceIndex = 2
    /\ conn.Driver = "SHANWAN Android Gamepad"

----------------------------------------------------------------------------
\* Properties of the axes

\* the step takes one event
TakesEvent == nEvents' = nEvents + 1

\* the key the event taken by the step is looked up with
KeyTaken ==
    <<IF lastEvt'.kind = "button" THEN InputTypeButton ELSE InputTypeAxis, lastEvt'.index>>

\* the step takes an axis event that resolves to r
TakesAxis(r) ==
    /\ TakesEvent
    /\ lastEvt'.kind = "axis"
    /\ KeyTaken \in DOMAIN inputMapping
    /\ inputMapping[KeyTaken] = r

\* the X and the Y axis of the two-axis groups
GroupAxes ==
    [g \in {"DPad", "LeftJoy", "RightJoy"} |->
       CASE g = "DPad" -> [X |-> "DPadXAxis", Y |-> "DPadYAxis"]
         [] g = "LeftJoy" -> [X |-> "LeftJoyXAxis", Y |-> "LeftJoyYAxis"]
         [] g = "RightJoy" -> [X |-> "RightJoyXAxis", Y |-> "RightJoyYAxis"]]

\* the step invokes exactly one direction handler, and nothing before it changes
OneDirection ==
    /\ Len(dirLog') = Len(dirLog) + 1
    /\ SubSeq(dirLog', 1, Len(dirLog)) = dirLog

Abs(n) == IF n < 0 THEN 0 - n ELSE n

\* C13: an event whose (kind, raw index) the mapping does not know invokes no
\* handler and leaves the axis cache and every button's gesture state as they
\* were; the processing task takes the next event.
C13_MappingMiss ==
    [][(TakesEvent /\ KeyTaken \notin DOMAIN inputMapping)
         => /\ log' = log
            /\ dirLog' = dirLog
            /\ axisCache' = axisCache
            /\ btn' = btn
            /\ timers' = timers]_vars

\* the first event was a mapping miss, the second one reached a handler
C13_Witness ==
    /\ missAt = 1
    /\ nEvents = 2
    /\ Len(log) + Len(dirLog) = 1

\* C15: an axis event of a two-axis group with a handler sets the cache entry
\* of that axis to the event value, leaves every other entry alone, and invokes
\* the handler once with x from the cached X axis and y from the cached Y axis
\* of the group.
C15_VectorComposition ==
    [][\A g \in DOMAIN GroupAxes : \A r \in {GroupAxes[g].X, GroupAxes[g].Y} :
         (TakesAxis(r) /\ dirHandler[g])
           => /\ axisCache' = [axisCache EXCEPT ![r] = lastEvt'.value]
              /\ OneDirection
              /\ dirLog'[Len(dirLog')].group = g
              /\ dirLog'[Len(dirLog')].x = axisCache'[GroupAxes[g].X]
              /\ Abs(dirLog'[Len(dirLog')].y) = Abs(axisCache'[GroupAxes[g].Y])]_vars

\* DPadY then DPadX 32767 gave (0.0, y) then (1.0, y), the second y from the
\* cache
C15_Witness ==
    /\ Len(dirLog) = 2
    /\ dirLog[1] = [group |-> "DPad", x |-> 0, y |-> 16384]
    /\ dirLog[2] = [group |-> "DPad", x |-> MaxValue, y |-> 16384]

\* C16: each component passed to a direction handler lies in [-1.0, 1.0]: its
\* numerator does not exceed MaxValue in absolute value.
C16_Clamped ==
    \A k \in 1..Len(dirLog) :
        Abs(dirLog[k].x) <= MaxValue /\ Abs(dirLog[k].y) <= MaxValue

\* C17: with InvertedY the y of every invocation is the negated cached Y value
\* and without it the cached Y value; x is the cached X value either way, and
\* the cache holds the raw value of the event.
C17_YInversion ==
    [][dirLog' # dirLog
         => LET e == dirLog'[Len(dirLog')] IN
            /\ e.x = axisCache'[GroupAxes[e.group].X]
            /\ e.y = IF invertY THEN 0 - axisCache'[GroupAxes[e.group].Y]
                     ELSE axisCache'[GroupAxes[e.group].Y]
            /\ axisCache'[inputMapping[KeyTaken]] = lastEvt'.value
            /\ \A a \in Axes \ {inputMapping[KeyTaken]} : axisCache'[a] = axisCache[a]]_vars

\* cached (16384, -16384) on an inverted group gave (0.5, 0.5)
C17_Witness ==
    /\ invertY
    /\ axisCache["DPadXAxis"] = 16384
    /\ axisCache["DPadYAxis"] = 0 - 16384
    /\ dirLog # <<>>
    /\ dirLog[Len(dirLog)] = [group |-> "DPad", x |-> 16384, y |-> 16384]

\* the button slot an event taken by the step resolves to
SlotTaken ==
    IF KeyTaken \in DOMAIN inputMapping
         /\ (lastEvt'.kind = "button" => inputMapping[KeyTaken] \in Buttons)
         /\ (lastEvt'.kind = "axis" => inputMapping[KeyTaken] \in {"L2Axis", "R2Axis"})
    THEN {inputMapping[KeyTaken]} ELSE {}

\* C18: an axis event of a group without a handler, or an event of a button
\* without a subscription, invokes nothing; the axis value is cached all the
\* same, and a handler registered later gets it with the next event of the group.
C18_MissingHandler ==
    [][/\ \A g \in DOMAIN GroupAxes : \A r \in {GroupAxes[g].X, GroupAxes[g].Y} :
            /\ (TakesAxis(r) /\ ~dirHandler[g])
                 => /\ dirLog' = dirLog
                    /\ log' = log
                    /\ axisCache' = [axisCache EXCEPT ![r] = lastEvt'.value]
            /\ (TakesAxis(r) /\ dirHandler[g] /\ r = GroupAxes[g].X)
                 => /\ OneDirection
                    /\ Abs(dirLog'[Len(dirLog')].y) = Abs(axisCache[GroupAxes[g].Y])
            /\ (TakesAxis(r) /\ dirHandler[g] /\ r = GroupAxes[g].Y)
                 => /\ OneDirection
                    /\ dirLog'[Len(dirLog')].x = axisCache[GroupAxes[g].X]
       /\ \A id \in SlotTaken :
            (TakesEvent /\ ~btn[id].sub)
              => /\ log' = log
                 /\ dirLog' = dirLog
                 /\ btn' = btn
                 /\ timers' = timers]_vars

\* DPadY 16384 came while the D-pad had no handler; the handler registered
\* afterwards got that y with the next event, DPadX 32767
C18_Witness ==
    /\ nEvents = 2
    /\ lastEvt.kind = "axis" /\ lastEvt.index = 6
    /\ dirLog = <<[group |-> "DPad", x |-> MaxValue,
                   y |-> IF invertY THEN 0 - 16384 ELSE 16384]>>

\* the kinds a subscription asks for
Subscribed(b, k) == b.sub /\ (b.eventsNil \/ k \in b.events)

\* the handler invocations a button event of position pos on button b makes
ButtonKinds(b, pos) ==
    IF ~b.sub \/ b.lastPosition = pos THEN <<>>
    ELSE IF pos = DownPosition
    THEN (IF Subscribed(b, DownEvent) THEN <<DownEvent>> ELSE <<>>)
    ELSE (IF Subscribed(b, UpEvent) THEN <<UpEvent>> ELSE <<>>)
           \o (IF Subscribed(b, ClickEvent) /\ now - b.downTime < clickDuration
               THEN <<ClickEvent>> ELSE <<>>)

\* C19: an L2 or R2 axis event invokes no direction handler; it acts on the
\* button of that trigger as a button event would, Down for a value above 0 and
\* Up for 0 or a negative value.
C19_TriggerRouting ==
    [][\A r \in {"L2Axis", "R2Axis"} :
         TakesAxis(r)
           => LET pos == IF lastEvt'.value > 0 THEN DownPosition ELSE UpPosition
                  new == SubSeq(log', Len(log) + 1, Len(log'))
              IN /\ dirLog' = dirLog
                 /\ btn[r].sub => btn'[r].lastPosition = pos
                 /\ SubSeq(log', 1, Len(log)) = log
                 /\ [k \in 1..Len(new) |-> new[k].ev] = ButtonKinds(btn[r], pos)
                 /\ \A k \in 1..Len(new) : new[k].id = r
                 /\ \A id \in ButtonSlots \ {r} : btn'[id] = btn[id]]_vars

\* L2 went down and, with a negative value, up again: the L2 handler got Down
\* and Up, the registered D-pad handler nothing
C19_Witness ==
    /\ lastEvt.kind = "axis" /\ lastEvt.index = 2 /\ lastEvt.value < 0
    /\ btn["L2Axis"].lastPosition = UpPosition
    /\ [k \in 1..Len(log) |-> <<log[k].id, log[k].ev>>]
         = <<<<"L2Axis", DownEvent>>, <<"L2Axis", UpEvent>>>>
    /\ dirHandler["DPad"]
    /\ dirLog = <<>>

----------------------------------------------------------------------------
\* Properties of subscriptions

\* C20: a handler is invoked with a kind only if the button's subscription
\* asks for it (every kind when no list was given, none when the list is
\* empty), a hold timer exists only for a button subscribed to Hold, and the
\* position and the time of the last Down are tracked whatever the set is.
C20_SubscriptionFilter ==
    /\ \A k \in 1..Len(log) : Subscribed(btn[log[k].id], log[k].ev)
    /\ \A x \in timers : Subscribed(btn[x.id], HoldEvent)
    /\ \A id \in ButtonSlots :
         btn[id].sub => /\ btn[id].lastPosition = phys[id]
                        /\ pressNo[id] > 0 => btn[id].downTime = downAt[id]
    /\ \A k \in 1..Len(presses) :
         LET p == presses[k] IN
         /\ Subscribed(btn[p.id], DownEvent) => EvCount(p.id, p.press, DownEvent) = 1
         /\ (p.released /\ Subscribed(btn[p.id], UpEvent))
              => EvCount(p.id, p.press, UpEvent) = 1

\* Cross, subscribed without a list, has received all four kinds
C20_Witness ==
    /\ btn["CrossButton"].sub /\ btn["CrossButton"].eventsNil
    /\ \A e \in ButtonEvents : \E k \in 1..Len(log) : log[k].id = "CrossButton" /\ log[k].ev = e

----------------------------------------------------------------------------
\* Properties of the button state machine

IsDownUp(e, id) == e.id = id /\ e.ev \in {DownEvent, UpEvent}

\* the Down and Up invocations of the handler of id, in order
DownUps(id) ==
    LET sel == SelectSeq(log, LAMBDA e : IsDownUp(e, id))
    IN [k \in 1..Len(sel) |-> sel[k].ev]

\* C21: the Down and Up invocations of a button subscribed to both alternate,
\* starting with Down, and lastPosition is Down exactly after an odd number of
\* them: the positions acted upon alternate from the initial Up.
C21_Alternation ==
    \A id \in ButtonSlots :
        (Subscribed(btn[id], DownEvent) /\ Subscribed(btn[id], UpEvent))
          => /\ \A k \in 1..Len(DownUps(id)) :
                   DownUps(id)[k] = IF k % 2 = 1 THEN DownEvent ELSE UpEvent
             /\ (btn[id].lastPosition = DownPosition) <=> (Len(DownUps(id)) % 2 = 1)

\* Cross went Down, Up and then got a second Up, which was swallowed
C21_Witness ==
    /\ DownUps("CrossButton") = <<DownEvent, UpEvent>>
    /\ nEvents = 3
    /\ lastEvt.dup /\ lastEvt.kind = "button" /\ lastEvt.index = 0 /\ lastEvt.value = 0

\* the hold timers of id that are waiting for their deadline
Pending(id) == {x \in timers : x.id = id /\ x.status = "armed"}

\* C22: a button has at most one pending hold timer, a pending timer is the
\* one of the current press and exists only while lastPosition is Down, and no
\* press has two timers or two Hold invocations.
C22_OnePendingTimer ==
    /\ \A id \in ButtonSlots :
         /\ Cardinality(Pending(id)) <= 1
         /\ \A x \in Pending(id) : /\ btn[id].lastPosition = DownPosition
                                   /\ btn[id].holdTimer = x.tid
                                   /\ x.press = pressNo[id]
    /\ \A k \in 1..Len(presses) :
         /\ Cardinality(PressTimers(presses[k].id, presses[k].press)) <= 1
         /\ EvCount(presses[k].id, presses[k].press, HoldEvent) <= 1

\* the second press of Cross has its timer pending, the timer of the first
\* press was stopped by the release
C22_Witness ==
    /\ pressNo["CrossButton"] = 2
    /\ \E x \in Pending("CrossButton") : x.press = 2
    /\ \E x \in timers : x.id = "CrossButton" /\ x.press = 1 /\ x.status = "stopped"

\* C23: a button has at most one pending hold timer whatever subscription
\* calls are made, and a timer made for a subscription that has been replaced
\* never calls the handler after the replacement.
C23_SingleGestureState ==
    /\ \A id \in ButtonSlots : Cardinality(Pending(id)) <= 1
    /\ \A x \in timers : x.tid \in replaced => x.status \notin {"running", "done"}

----------------------------------------------------------------------------
\* Properties of the polled transport

\* the events emitted for the last report that carry this index
EmittedFor(index) == SelectSeq(emitted, LAMBDA e : e.Index = index)

\* bit number n of a nibble or byte
Bit(x, n) == (x \div (2 ^ n)) % 2

\* The logical state of the field behind each event index, as a report shows
\* it: the bit of a button, the left and right (up and down) bits of the
\* d-pad, whether a trigger byte is nonzero, the position of a stick axis.
Logical(r) ==
    [i \in 1..19 |->
       CASE i = startButtonIndex -> Bit(r.b2, 4)
         [] i = selectButtonIndex -> Bit(r.b2, 5)
         [] i = ljButtonIndex -> Bit(r.b2, 6)
         [] i = rjButtonIndex -> Bit(r.b2, 7)
         [] i = dpadXAxisIndex -> <<Bit(r.b2, 2), Bit(r.b2, 3)>>
         [] i = dpadYAxisIndex -> <<Bit(r.b2, 0), Bit(r.b2, 1)>>
         [] i = crossButtonIndex -> Bit(r.b3, 4)
         [] i = circleButtonIndex -> Bit(r.b3, 5)
         [] i = squareButtonIndex -> Bit(r.b3, 6)
         [] i = triangleButtonIndex -> Bit(r.b3, 7)
         [] i = l1ButtonIndex -> Bit(r.b3, 0)
         [] i = r1ButtonIndex -> Bit(r.b3, 1)
         [] i = analogButtonIndex -> Bit(r.b3, 2)
         [] i = l2AxisIndex -> IF r.b4 # 0 THEN 1 ELSE 0
         [] i = r2AxisIndex -> IF r.b5 # 0 THEN 1 ELSE 0
         [] i = ljxAxisIndex -> r.b67
         [] i = ljyAxisIndex -> r.b89
         [] i = rjxAxisIndex -> r.b1011
         [] i = rjyAxisIndex -> r.b1213]

\* readDeviceInput is through with the report read last
Processed == pollAt = 0

\* C24: for two consecutive reports, one event is emitted for each field whose
\* logical state changed and none for a field whose state did not change.
C24_EmitOnChange ==
    Processed =>
      \A i \in 1..19 :
        Len(EmittedFor(i)) = IF Logical(lastBuf)[i] # Logical(buf)[i] THEN 1 ELSE 0

\* C25: a trigger byte going from zero to a nonzero value emits one axis event
\* of value MaxValue, from nonzero to zero one axis event of value 0, and
\* nothing else is emitted for a trigger.
C25_TriggerSynthesis ==
  Processed =>
    /\ EmittedFor(l2AxisIndex) =
         IF lastBuf.b4 = 0 /\ buf.b4 # 0
         THEN <<[Type |-> axisEventType, Index |-> l2AxisIndex, Value |-> MaxValue]>>
         ELSE IF lastBuf.b4 # 0 /\ buf.b4 = 0
         THEN <<[Type |-> axisEventType, Index |-> l2AxisIndex, Value |-> 0]>>
         ELSE <<>>
    /\ EmittedFor(r2AxisIndex) =
         IF lastBuf.b5 = 0 /\ buf.b5 # 0
         THEN <<[Type |-> axisEventType, Index |-> r2AxisIndex, Value |-> MaxValue]>>
         ELSE IF lastBuf.b5 # 0 /\ buf.b5 = 0
         THEN <<[Type |-> axisEventType, Index |-> r2AxisIndex, Value |-> 0]>>
         ELSE <<>>

----------------------------------------------------------------------------
\* Properties of dropped events

\* the position of Cross on the pad, as the last report shows it
DevicePosition == IF Bit(buf.b3, 4) = 1 THEN DownPosition ELSE UpPosition

\* C26: after the dispatcher has dropped an event, the engine's lastPosition of
\* the button comes to agree with the position of the button on the pad, with
\* no further press or release.
C26_DropRecovery ==
    (dropped # {}) ~> (btn["CrossButton"].lastPosition = DevicePosition \/ panicked)

\* ---- dispatcher memory ----

\* the button and axis events the dispatcher has received and neither
\* delivered nor dropped
Held ==
    {s \in taken : /\ readLog[s].Type \in {buttonEventType, axisEventType}
                   /\ s \notin DeliveredSeqs \cup dropped}

\* C27: the dispatcher holds at most one ingress event that it has received
\* and neither delivered nor dropped, namely the one of its inner select; and
\* buttonCh and axisCh buffer nothing: an event leaves the dispatcher for the
\* processing task only in a step in which that task receives it.
C27_BoundedMemory ==
    /\ [](/\ Cardinality(Held) <= 1
          /\ Held = IF DispSending THEN {disp.evt.seq} ELSE {})
    /\ [][delivered' # delivered =>
            /\ DispSending /\ cons = "select" /\ cons' = "busy"
            /\ delivered' = Append(delivered, Typed(disp.pc, disp.evt))
            /\ disp'.pc = "select"]_vars

\* the dispatcher holds an event while the processing task is busy with an
\* earlier one
C27_Witness ==
    /\ DispSending /\ cons = "busy"
    /\ Len(delivered) >= 1
    /\ Held = {disp.evt.seq}

\* ---- mapping tables ----

\* an InputMapping sends button inputs to button ids and axis inputs to axis
\* ids, no two inputs to the same id, and reaches every id
WellFormed(mp) ==
    /\ \A key \in DOMAIN mp :
         /\ key[1] \in {InputTypeButton, InputTypeAxis}
         /\ key[1] = InputTypeButton => mp[key] \in Buttons
         /\ key[1] = InputTypeAxis => mp[key] \in Axes
    /\ \A k1, k2 \in DOMAIN mp : mp[k1] = mp[k2] => k1 = k2
    /\ {mp[key] : key \in DOMAIN mp} = Resolved

TablesWellFormed ==
    /\ Cardinality(Resolved) = 19
    /\ DOMAIN DriverMapping
         = {"Microsoft X-Box 360 pad", "SHANWAN Android Gamepad", "MacOS"}
    /\ \A d \in DOMAIN DriverMapping : WellFormed(DriverMapping[d])
    /\ \A d \in DOMAIN gamepadDriverMapping : WellFormed(gamepadDriverMapping[d])
    /\ \A d \in DOMAIN gamepadDriverMapping :
         /\ gamepadDriverMapping[d][<<InputTypeButton, 0>>] = "CrossButton"
         /\ gamepadDriverMapping[d][<<InputTypeAxis, 6>>] = "DPadXAxis"
    /\ DriverMapping["Microsoft X-Box 360 pad"][<<InputTypeButton, 0>>] = "CrossButton"
    /\ DriverMapping["Microsoft X-Box 360 pad"][<<InputTypeAxis, 6>>] = "DPadXAxis"
    /\ WellFormed(inputMapping)
    /\ inputMapping = gamepadDriverMapping["Microsoft X-Box 360 pad"]

\* the last invocation in lg is event ev of Cross
LastIs(lg, ev) == lg[Len(lg)].id = "CrossButton" /\ lg[Len(lg)].ev = ev

\* C28: every built-in mapping table sends button inputs to button ids and
\* axis inputs to axis ids, is injective and covers the 19 ids; on the X-Box
\* pad raw button 0 is Cross and raw axis 6 is DPadX, so that, Cross being
\* subscribed to every kind, raw button 0 going down invokes Cross Down and
\* going up within the click window invokes Cross Up and then Cross Click.
C28_MappingTables ==
    /\ []TablesWellFormed
    /\ [][(/\ nEvents' = nEvents + 1
           /\ lastEvt'.kind = "button" /\ lastEvt'.index = 0
           /\ AllKinds(btn["CrossButton"]))
          => LET b == btn["CrossButton"] IN
             /\ (lastEvt'.value = 1 /\ b.lastPosition = UpPosition) =>
                   /\ Len(log') = Len(log) + 1
                   /\ SubSeq(log', 1, Len(log)) = log
                   /\ LastIs(log', DownEvent)
             /\ (lastEvt'.value = 0 /\ b.lastPosition = DownPosition
                   /\ now - b.downTime < clickDuration) =>
                   /\ Len(log') = Len(log) + 2
                   /\ SubSeq(log', 1, Len(log)) = log
                   /\ LastIs(SubSeq(log', 1, Len(log) + 1), UpEvent)
                   /\ LastIs(log', ClickEvent)]_vars

\* raw button 0 of the X-Box pad was pressed and released within the click
\* window: the invocations are Cross Down, Up, Click
C28_Witness ==
    /\ lastEvt.kind = "button" /\ lastEvt.index = 0 /\ lastEvt.value = 0
    /\ ~lastEvt.dup
    /\ AllKinds(btn["CrossButton"])
    /\ Len(log) = 3
    /\ \A k \in 1..3 : log[k].id = "CrossButton"
    /\ <<log[1].ev, log[2].ev, log[3].ev>> = <<DownEvent, UpEvent, ClickEvent>>

\* ---- order and the ingress channel ----

\* C29: the events delivered to the processing task are in the order in which
\* readDeviceInput read them from the device; the event the forwarding
\* goroutine of mapInitalEvents sends again is not overtaken by a later one.
C29_OrderPreserved ==
    \A j, k \in 1..Len(delivered) :
        j < k => delivered[j].seq < delivered[k].seq

\* C30: no goroutine sends on osEventsCh after readDeviceInput has closed it.
C30_NoSendOnClosed ==
    /\ ~panicked
    /\ osClosed => reader.pc # "send"

\* ---- the edge synthesizer's state ----

\* the indices of the digital buttons
DigitalIndices ==
    {startButtonIndex, selectButtonIndex, ljButtonIndex, rjButtonIndex,
     crossButtonIndex, circleButtonIndex, squareButtonIndex, triangleButtonIndex,
     l1ButtonIndex, r1ButtonIndex, analogButtonIndex}

\* the cache flag of the statement that emits events of index i
FlagOf(i) ==
    Steps(RestReport)[CHOOSE k \in 1..Len(Steps(RestReport)) :
                         Steps(RestReport)[k].index = i].flag

\* C31: after every report, the cached pressed state of each digital button
\* is the button's bit in that report, and a button whose bit is set in two
\* consecutive reports has no release event (value 0) between them, whatever
\* the other bits of its nibble do.
C31_CacheTracksBit ==
  Processed =>
    \A i \in DigitalIndices :
        /\ padCache[FlagOf(i)] = (Logical(buf)[i] = 1)
        /\ (Logical(lastBuf)[i] = 1 /\ Logical(buf)[i] = 1) =>
              \A k \in 1..Len(emitted) :
                  emitted[k].Index = i => emitted[k].Value # 0

\* the d-pad values a report stands for: its nibble is Left (4), Right (8),
\* Up (1), Down (2), or anything else
DPadXOf(r) ==
    IF r.b2 % 16 = 4 THEN 0 - MaxValue ELSE IF r.b2 % 16 = 8 THEN MaxValue ELSE 0
DPadYOf(r) ==
    IF r.b2 % 16 = 1 THEN MaxValue ELSE IF r.b2 % 16 = 2 THEN 0 - MaxValue ELSE 0

\* the events of index i emitted for the latest report end with value v; if
\* there are none, v is what the report before stood for, so that the last
\* value emitted earlier still stands
LastEmitted(i, v, before) ==
    IF EmittedFor(i) = <<>> THEN v = before
    ELSE EmittedFor(i)[Len(EmittedFor(i))].Value = v

\* C32: after every report the last DPadX value emitted is -MaxValue if the
\* d-pad nibble is Left, +MaxValue if it is Right and 0 otherwise, and the
\* last DPadY value +MaxValue for Up, -MaxValue for Down and 0 otherwise,
\* also when the nibble goes from one direction straight to the opposite one.
C32_DPadConsistent ==
  Processed =>
    /\ LastEmitted(dpadXAxisIndex, DPadXOf(buf), DPadXOf(lastBuf))
    /\ LastEmitted(dpadYAxisIndex, DPadYOf(buf), DPadYOf(lastBuf))

\* ---- gestures of one press, and of different buttons ----

\* C33: whatever ClickDuration and HoldDuration the options set, no press of
\* a button subscribed to Hold and Click has both a Hold and a Click
\* invocation.
C33_HoldClickExclusive ==
    \A k \in 1..Len(presses) :
        LET r == presses[k]
            b == btn[r.id]
        IN (b.sub /\ includes(b, HoldEvent) /\ includes(b, ClickEvent)) =>
             ~(/\ EvCount(r.id, r.press, HoldEvent) >= 1
               /\ EvCount(r.id, r.press, ClickEvent) >= 1)
\* the timers made for button id
TimersOf(ts, id) == {x \in ts : x.id = id}

\* C34: a step that takes an event resolved to a button leaves every other
\* button (lastPosition, downTime, hold timer) and the other buttons' timers
\* as they were, invokes only that button's handler, and leaves the cache
\* entries of the stick and d-pad axes alone.
C34_ButtonIndependence ==
    [][\A id \in SlotTaken : TakesEvent =>
          /\ \A o \in ButtonSlots \ {id} :
                /\ btn'[o] = btn[o]
                /\ TimersOf(timers', o) = TimersOf(timers, o)
          /\ Len(log') >= Len(log)
          /\ SubSeq(log', 1, Len(log)) = log
          /\ \A k \in (Len(log) + 1)..Len(log') : log'[k].id = id
          /\ dirLog' = dirLog
          /\ \A a \in Axes \ {"L2Axis", "R2Axis"} : axisCache'[a] = axisCache[a]]_vars

\* L2 was pressed while Cross was down with its hold timer pending: L2's
\* handler was invoked and Cross is as it was
C34_Witness ==
    /\ lastEvt.kind = "axis" /\ lastEvt.index = 2 /\ lastEvt.value > 0 /\ ~lastEvt.dup
    /\ btn["L2Axis"].lastPosition = DownPosition
    /\ btn["CrossButton"].lastPosition = DownPosition
    /\ TimerStatus(timers, btn["CrossButton"].holdTimer) = "armed"
    /\ Len(log) >= 2
    /\ log[Len(log)].id = "L2Axis" /\ log[Len(log)].ev = DownEvent

\* ---- events of other types ----

\* the events HID.handleEvents received whose type is neither button nor axis
OtherTaken ==
    {q \in taken : readLog[q].Type \notin {buttonEventType, axisEventType}}

\* C35: an ingress event that is neither a button nor an axis event is never
\* delivered on buttonCh or axisCh and never dropped by the timer; the step
\* in which the dispatcher receives it invokes no handler and leaves the
\* dispatcher at its outer select, neither sending nor stopped.
C35_OtherEventsHarmless ==
    /\ [](OtherTaken \cap (DeliveredSeqs \cup dropped) = {})
    /\ [](\A k \in 1..Len(delivered) :
            readLog[delivered[k].seq].Type \in {buttonEventType, axisEventType})
    /\ [][(\E q \in taken' \ taken :
              readLog[q].Type \notin {buttonEventType, axisEventType})
          => /\ disp'.pc = "select"
             /\ delivered' = delivered
             /\ log' = log /\ dirLog' = dirLog /\ btn' = btn]_vars

\* the dispatcher received an init event (0x81) and afterwards delivered a
\* button or axis event
C35_Witness ==
    /\ \E q \in OtherTaken : \E k \in 1..Len(delivered) :
          /\ readLog[q].Type = initEventType
          /\ delivered[k].seq > q
    /\ disp.pc = "select"

\* ---- the synthesizer and the "MacOS" table ----

\* the id of the pad's field behind each cache flag
FieldId ==
    [f \in CacheFlags |->
       CASE f = "startBtn" -> "StartButton"   [] f = "selectBtn" -> "SelectButton"
         [] f = "ljBtn" -> "LeftJoyButton"    [] f = "rjBtn" -> "RightJoyButton"
         [] f \in {"lpadAxis", "rpadAxis"} -> "DPadXAxis"
         [] f \in {"upadAxis", "dpadAxis"} -> "DPadYAxis"
         [] f = "xBtn" -> "CrossButton"       [] f = "oBtn" -> "CircleButton"
         [] f = "sBtn" -> "SquareButton"      [] f = "tBtn" -> "TriangleButton"
         [] f = "l1Btn" -> "L1Button"         [] f = "r1Btn" -> "R1Button"
         [] f = "analogBtn" -> "AnalogButton"
         [] f = "l2Axis" -> "L2Axis"          [] f = "r2Axis" -> "R2Axis"
         [] f = "ljXAxis" -> "LeftJoyXAxis"   [] f = "ljYAxis" -> "LeftJoyYAxis"
         [] f = "rjXAxis" -> "RightJoyXAxis"  [] f = "rjYAxis" -> "RightJoyYAxis"]

\* the key Gamepad.handleEvents looks an event of this type and index up with
KeyOf(type, index) ==
    <<IF type = buttonEventType THEN InputTypeButton ELSE InputTypeAxis, index>>

\* the type of the events a statement of readDeviceInput emits
TypeOf(f) == IF f.how = "button" THEN buttonEventType ELSE axisEventType

\* C36: every (kind, index) the edge synthesizer can emit is a key of the
\* "MacOS" mapping and resolves to the id of the field the event was decoded
\* from, for each statement of readDeviceInput and for each event emitted for
\* a report; and no synthesized event the processing task takes is a mapping
\* miss.
C36_IndicesAgree ==
    /\ \A k \in 1..Len(Steps(buf)) :
          LET f == Steps(buf)[k] IN
            /\ KeyOf(TypeOf(f), f.index) \in DOMAIN DriverMapping["MacOS"]
            /\ DriverMapping["MacOS"][KeyOf(TypeOf(f), f.index)] = FieldId[f.flag]
    /\ \A k \in 1..Len(emitted) :
          /\ emitted[k].Type \in {buttonEventType, axisEventType}
          /\ KeyOf(emitted[k].Type, emitted[k].Index) \in DOMAIN DriverMapping["MacOS"]
          /\ \E j \in 1..Len(Steps(buf)) :
                /\ Steps(buf)[j].index = emitted[k].Index
                /\ TypeOf(Steps(buf)[j]) = emitted[k].Type
                /\ DriverMapping["MacOS"][KeyOf(emitted[k].Type, emitted[k].Index)]
                     = FieldId[Steps(buf)[j].flag]
    /\ lastEvt.kind = "button" =>
          <<InputTypeButton, lastEvt.index>> \in DOMAIN polledInputMapping

====
